---- MODULE Spec2Model ----
(***************************************************************************)
(* A model of the parallel instruction predictor's training code:          *)
(*   - ParallelInstructionLoss.forward      (src/train/parallel/model.py)   *)
(*   - the epoch loop of main               (src/train/parallel/train.py)   *)
(*   - ParallelDataset.__getitem__ and the generators' padding routines,   *)
(*   - ParallelDataset.__init__, train_epoch and evaluate,                 *)
(*   - the checkpoint readers: the resume step of main, export_to_onnx     *)
(*     (src/train/parallel/export_onnx.py) and test_inference.py,          *)
(*   - forward / predict of the two models (model.py), the tokenizers and  *)
(*     the instruction decoder of test_inference.py.                       *)
(* The specifications share the module; each drives its own variables and  *)
(* leaves the others at rest:                                              *)
(*   SpecLoss    one call of the loss on a batch,                          *)
(*   Spec        one training run (initialise, epochs, finalize),          *)
(*   SpecData    padding / target construction of one sample,              *)
(*   SpecLoad    loading one data file,                                    *)
(*   SpecStep    one call of train_epoch, statement by statement,          *)
(*   SpecEval    one call of evaluate, batch by batch,                     *)
(*   SpecDeploy  one run of a program that reads a checkpoint,             *)
(*   SpecCodec   one instruction from a generator to the inference decoder,*)
(*   SpecForward one call of forward / predict, as tensor shapes,          *)
(*   SpecTok     one text through the training and inference tokenizers,   *)
(*   SpecWorkers the loader's workers reading items of one dataset.        *)
(*                                                                         *)
(* Numbers.  Loss values are real numbers in the program.  The model keeps *)
(* them exact: a per-element cross-entropy is an even natural number of    *)
(* fixed-point half units, a per-head average is kept as numerator and     *)
(* divisor (cnt + eps * 1e-8), and the total as the pair of numerators     *)
(* over the two divisors that occur (all elements; valid count + 1e-8).    *)
(* Two such totals over the same batch are equal as reals exactly when the *)
(* pairs are equal, because every numerator is far below 1e8.              *)
(***************************************************************************)
EXTENDS Integers, Naturals, Sequences, FiniteSets, TLC

VARIABLES
    \* ---- ParallelInstructionLoss.forward
    batch,            \* the call's arguments: target valid and per-element CE
    losses,           \* the returned mapping (None before the call returns)
    total_loss,       \* the returned scalar
    \* ---- main (training run)
    pc,               \* position of main
    alive,            \* FALSE once the process was killed
    exitVia,          \* ghost: how the epoch loop was left
    epochs,           \* args.epochs
    patience,         \* args.patience
    start_epoch,      \* start_epoch after the optional resume
    epoch,            \* the loop variable (Unbound until the loop binds it)
    trainBatches,     \* len(train_loader)
    valBatches,       \* len(val_loader)
    params,           \* the model parameters: the list of epoch indices trained
    train_losses,     \* result of the last train_epoch
    val_losses,       \* result of the last evaluate
    best_val_loss,
    best_opcode_acc,
    patience_counter,
    last_epoch,       \* scheduler.last_epoch: the number of scheduler steps
    bestFile,         \* save_dir / 'best_model.pt'
    finalFile,        \* output_path.with_suffix('.pt')
    configFile,       \* output_path.with_suffix('.config.json')
    history,          \* ghost: the evaluations of this run, in order
    trace,            \* ghost: the calls of this run, in order
    \* ---- dataset wrapper and generators
    sample,           \* the 'instructions' list of one loaded sample
    genInstrs,        \* an Instruction list produced by a generator
    targets,          \* result of ParallelDataset.__getitem__
    padded,           \* result of a generator's padding routine
    \* ---- ParallelDataset.__init__ (loading the data file)
    lines,            \* the lines of the data file
    max_samples,      \* the max_samples argument (0 stands for None)
    lineNo,           \* number of lines the for statement has taken
    samples,          \* self.samples
    categories,       \* self.categories
    loadPc,           \* position of __init__
    \* ---- train_epoch
    tpc,              \* position of train_epoch
    scaler,           \* TRUE when a GradScaler is passed (mixed precision)
    loaderLen,        \* len(loader)
    batchNo,          \* number of batches the for statement has taken
    ops,              \* ghost: the calls made for the current batch
    optimizerSteps,   \* ghost: optimizer steps attempted in this call
    num_batches,      \* num_batches of train_epoch
    \* ---- evaluate
    evalLoader,       \* the batches of the validation loader
    evalNo,           \* number of batches the for statement has taken
    correct_valid,
    total_slots,
    correct_opcode,
    total_valid,
    metrics,          \* the returned mapping (None before evaluate returns)
    \* ---- checkpoint consumers: resume, export_to_onnx, test_inference
    site,             \* which program runs
    ckpt,             \* the object torch.load returns for the given file
    light,            \* the --light flag of the site
    sitePc,           \* position of the site
    model,            \* the constructed model's state (None before)
    written,          \* ghost: files written after the load step
    outFile,          \* the file at the export's output path
    bound,            \* the names test_onnx_inference binds (None before)
    \* ---- one instruction from a generator to the inference decoder
    emitted,          \* the instruction a generator emits
    encoded,          \* the slot's target classes built by __getitem__
    decoded,          \* what decode_instruction makes of those classes
    \* ---- forward / predict of the models
    net,              \* the constructed model's configuration
    training,         \* self.training (train() / eval())
    input_ids,        \* the argument x: token ids of shape (batch, seq_len)
    fpc,              \* position of forward
    activation,       \* the tensor the current statement produced
    logits,           \* the mapping forward returns (None before)
    predictions,      \* the mapping predict returns (None before)
    \* ---- the tokenizers
    prompt,           \* the text to tokenize
    token_len,        \* max_seq_len of the dataset = max_len of tokenize
    train_tokens,     \* the tokens __getitem__ builds (None before)
    infer_tokens,     \* the array tokenize returns (None before)
    \* ---- item accesses by loader workers
    dataset,          \* the ParallelDataset object the workers share
    loaded,           \* ghost: the dataset as __init__ built it
    workers           \* per worker: position in __getitem__ and its locals

lossVars  == <<batch, losses, total_loss>>
trainVars == <<pc, alive, exitVia, epochs, patience, start_epoch, epoch, trainBatches, valBatches,
               params, train_losses, val_losses, best_val_loss, best_opcode_acc,
               patience_counter, last_epoch, bestFile, finalFile, configFile,
               history, trace>>
dataVars  == <<sample, genInstrs, targets, padded>>
loadVars  == <<lines, max_samples, lineNo, samples, categories, loadPc>>
stepVars  == <<tpc, scaler, loaderLen, batchNo, ops, optimizerSteps, num_batches>>
evalVars  == <<evalLoader, evalNo, correct_valid, total_slots, correct_opcode,
               total_valid, metrics>>
deployVars == <<site, ckpt, light, sitePc, model, written, outFile, bound>>
codecVars == <<emitted, encoded, decoded>>
coreVars  == <<lossVars, trainVars, dataVars, loadVars, stepVars, evalVars, deployVars>>
netVars   == <<net, training, input_ids, fpc, activation, logits, predictions>>
tokVars   == <<prompt, token_len, train_tokens, infer_tokens>>
workerVars == <<dataset, loaded, workers>>
auxVars   == <<codecVars, netVars, tokVars, workerVars>>
vars      == <<coreVars, auxVars>>

\* Python's None, and a dict with no entry.  Every variable holds records (or
\* integers), so that TLC can compare any two of its values.
None      == [kind |-> "none"]
EmptyDict == [n \in {} |-> 0]
\* exitVia while the epoch loop has not been left.
NoExit    == "none"
\* A path at which no file exists.
Absent    == [file |-> "absent"]
\* The loop variable of main before the for statement has bound it (a name
\* that is read then raises UnboundLocalError); epoch indices are >= 0.
Unbound   == -1

Max(a, b) == IF a >= b THEN a ELSE b
Min(a, b) == IF a <= b THEN a ELSE b

RECURSIVE SumOver(_, _)
\* Sum of f[x] over the finite set S (f an operator-free function).
SumOver(S, f) ==
    IF S = {} THEN 0
    ELSE LET x == CHOOSE y \in S : TRUE IN f[x] + SumOver(S \ {x}, f)

(***************************************************************************)
(* ParallelInstructionLoss                                                 *)
(***************************************************************************)

\* Number of (sample, slot) elements of the batch handed to the loss.  forward
\* reads the shape from its arguments and flattens it, so the model batch is
\* a flat set of elements.
NumElems == 2
Elems == 1..NumElems

\* The loop order of forward.
HeadNames == <<"valid", "opcode", "mode", "rd", "rs1", "rs2", "has_imm", "imm_bin">>
Heads == {HeadNames[i] : i \in 1..Len(HeadNames)}
MaskedHeads == Heads \ {"valid"}

\* self.weights with the constructor's defaults, doubled (0.5 -> 1).
Weights2 ==
    [valid |-> 2, opcode |-> 4, mode |-> 2, rd |-> 2, rs1 |-> 2, rs2 |-> 2,
     has_imm |-> 1, imm_bin |-> 1]

\* 1 / 1e-8: the epsilon of the masked divisor is one unit of 1/EpsInv.
EpsInv == 100000000

\* Values nn.CrossEntropyLoss(reduction='none') returns for one element, in
\* half units (even, so that a weight of 0.5 stays exact).
CELevels == <<0, 2, 4>>

HeadIdx(h) == CHOOSE i \in 1..Len(HeadNames) : HeadNames[i] = h

\* The batches the model calls the loss on: any target valid in {0,1} per
\* element, any CE level per element for the valid head, and any CE level
\* per element for the field heads, shifted per head so that the eight heads
\* carry different values.
CEOf(h, lvl) == CELevels[((lvl + HeadIdx(h)) % Len(CELevels)) + 1]
Levels == 0..(Len(CELevels) - 1)
MakeBatch(v, lv, lf) ==
    [valid |-> v,
     ce    |-> [h \in Heads |->
                  [s \in Elems |-> IF h = "valid" THEN CELevels[lv[s] + 1]
                                   ELSE CEOf(h, lf[s])]]]
Batches ==
    {MakeBatch(v, lv, lf) : v \in [Elems -> {0, 1}],
                            lv \in [Elems -> Levels], lf \in [Elems -> Levels]}

\* loss = loss * valid_mask ; loss.sum() / (valid_mask.sum() + 1e-8)
MaskedAverageNoMask(valid, ce) ==
    [num |-> SumOver(Elems, ce),
     cnt |-> SumOver(Elems, valid), eps |-> 1]
MaskedAverageNoEps(valid, ce) ==
    [num |-> SumOver(Elems, [s \in Elems |-> ce[s] * valid[s]]),
     cnt |-> SumOver(Elems, valid), eps |-> 0]
MaskedAverage(valid, ce) ==
    [num |-> SumOver(Elems, [s \in Elems |-> ce[s] * valid[s]]),
     cnt |-> SumOver(Elems, valid), eps |-> 1]

\* loss.mean()
MeanAllMasked(valid, ce) ==
    [num |-> SumOver(Elems, [s \in Elems |-> ce[s] * valid[s]]),
     cnt |-> NumElems, eps |-> 0]
MeanAll(valid, ce) ==
    [num |-> SumOver(Elems, ce), cnt |-> NumElems, eps |-> 0]

\* One iteration's per-head average: masked for every head but 'valid'.
HeadLoss(name, b) ==
    IF name # "valid" THEN MaskedAverage(b.valid, b.ce[name])
    ELSE MeanAll(b.valid, b.ce[name])

WeightedUnit(name, l) ==
    LET w == l.num
    IN  IF l.eps = 0 THEN [mean |-> w, masked |-> 0]
        ELSE [mean |-> 0, masked |-> w]
\* weights[name] * loss, as the pair of numerators over the two divisors.
Weighted(name, l) ==
    LET w == (Weights2[name] * l.num) \div 2
    IN  IF l.eps = 0 THEN [mean |-> w, masked |-> 0]
        ELSE [mean |-> 0, masked |-> w]

AddTotal(a, b) == [mean |-> a.mean + b.mean, masked |-> a.masked + b.masked]
ZeroTotal == [mean |-> 0, masked |-> 0]

\* d[name] = v on a dict.
Put(d, name, v) == [n \in DOMAIN d \cup {name} |-> IF n = name THEN v ELSE d[n]]

RECURSIVE ForwardLoop(_, _, _, _)
\* The for loop of forward from position i: the state after the last head.
ForwardLoop(i, b, ls, tot) ==
    IF i > Len(HeadNames) THEN [losses |-> ls, total |-> tot]
    ELSE LET name == HeadNames[i]
             loss == HeadLoss(name, b)
         IN  ForwardLoop(i + 1, b, Put(ls, name, loss),
                         AddTotal(tot, Weighted(name, loss)))

\* forward: the loop, then losses['total'] = total_loss.item().
ForwardResult(b) ==
    LET r == ForwardLoop(1, b, EmptyDict, ZeroTotal)
    IN  [losses |-> Put(r.losses, "total", r.total), total |-> r.total]

LossInit ==
    /\ batch \in Batches
    /\ losses = None
    /\ total_loss = None

LossIdle ==
    /\ batch = None
    /\ losses = None
    /\ total_loss = None

\* criterion(logits, targets)
Forward ==
    /\ batch # None /\ losses = None
    /\ losses' = ForwardResult(batch).losses
    /\ total_loss' = ForwardResult(batch).total
    /\ UNCHANGED batch
    /\ UNCHANGED <<auxVars, trainVars, dataVars, loadVars, stepVars, evalVars, deployVars>>

(***************************************************************************)
(* main: the training run                                                  *)
(***************************************************************************)

MaxEpochs   == 3       \* largest epoch budget and largest resume epoch
MaxPatience == 2       \* largest --patience

\* len(loader): an empty loader or a loader with batches.
BatchCounts == {0, 2}
\* val_losses['opcode_acc'] (in steps of one third) and val_losses['total'].
AccLevels  == {0, 1, 2}
LossLevels == {1, 2}
\* float('inf'), above every loss level.
Inf == 999

\* A best_model.pt left in the save directory by an earlier run whose last
\* improving epoch was e: the mapping of lines 392-398.
PriorCheckpoint(e) ==
    [epoch |-> e, model_state_dict |-> [i \in 1..(e + 1) |-> i - 1],
     val_loss |-> 1, opcode_acc |-> 2]
\* What a file holds while torch.save is writing it.
Torn == [file |-> "torn"]

\* --checkpoint: none, a bare state dict, or an enriched mapping.
BareCheckpoint == [bare |-> <<0>>]
ResumeArgs == {None, BareCheckpoint} \cup {PriorCheckpoint(e) : e \in 0..MaxEpochs}
\* isinstance(checkpoint, dict) and 'model_state_dict' in checkpoint
IsEnriched(ck) == "model_state_dict" \in DOMAIN ck

\* Lines 341-353: start_epoch = 0, replaced by checkpoint.get('epoch', 0) when
\* the checkpoint is a mapping with 'model_state_dict'.
StartEpochOf(ck) == IF IsEnriched(ck) THEN ck.epoch ELSE 0
LoadedParams(ck) ==
    IF IsEnriched(ck) THEN ck.model_state_dict
    ELSE IF ck = None THEN <<>> ELSE ck.bare

TrainInit ==
    \E ck \in ResumeArgs :
        /\ pc = "loop"
        /\ alive = TRUE
        /\ exitVia = NoExit
        /\ epochs \in 0..MaxEpochs
        /\ patience \in 0..MaxPatience
        /\ start_epoch = StartEpochOf(ck)
        /\ epoch = Unbound
        /\ trainBatches \in BatchCounts
        /\ valBatches \in BatchCounts
        /\ params = LoadedParams(ck)
        /\ train_losses = None
        /\ val_losses = None
        /\ best_val_loss = Inf
        /\ best_opcode_acc = 0
        /\ patience_counter = 0
        /\ last_epoch = 0
        /\ bestFile \in {Absent} \cup (IF IsEnriched(ck) THEN {ck} ELSE {})
        /\ finalFile = Absent
        /\ configFile = Absent
        /\ history = <<>>
        /\ trace = <<>>

TrainIdle ==
    /\ pc = "idle"
    /\ alive = TRUE
    /\ exitVia = NoExit
    /\ epochs = 0
    /\ patience = 0
    /\ start_epoch = 0
    /\ epoch = Unbound
    /\ trainBatches = 0
    /\ valBatches = 0
    /\ params = <<>>
    /\ train_losses = None
    /\ val_losses = None
    /\ best_val_loss = Inf
    /\ best_opcode_acc = 0
    /\ patience_counter = 0
    /\ last_epoch = 0
    /\ bestFile = Absent
    /\ finalFile = Absent
    /\ configFile = Absent
    /\ history = <<>>
    /\ trace = <<>>

\* The next value of range(start_epoch, args.epochs).
NextIndex == IF epoch = Unbound THEN start_epoch ELSE epoch + 1

\* Line 371: the for statement binds the next epoch index.
EnterEpochOffByOne ==
    /\ alive /\ pc = "loop"
    /\ NextIndex <= epochs
    /\ epoch' = NextIndex
    /\ pc' = "train"
    /\ UNCHANGED <<auxVars, lossVars, dataVars, loadVars, stepVars, evalVars, deployVars>>
    /\ UNCHANGED <<alive, exitVia, epochs, patience, start_epoch, trainBatches,
                   valBatches, params, train_losses, val_losses, best_val_loss,
                   best_opcode_acc, patience_counter, last_epoch, bestFile,
                   finalFile, configFile, history, trace>>
EnterEpoch ==
    /\ alive /\ pc = "loop"
    /\ NextIndex < epochs
    /\ epoch' = NextIndex
    /\ pc' = "train"
    /\ UNCHANGED <<auxVars, lossVars, dataVars, loadVars, stepVars, evalVars, deployVars>>
    /\ UNCHANGED <<alive, exitVia, epochs, patience, start_epoch, trainBatches,
                   valBatches, params, train_losses, val_losses, best_val_loss,
                   best_opcode_acc, patience_counter, last_epoch, bestFile,
                   finalFile, configFile, history, trace>>

\* Line 371: the range is exhausted; the loop ends and leaves epoch as it is.
LoopExhausted ==
    /\ alive /\ pc = "loop"
    /\ NextIndex >= epochs
    /\ pc' = "finalize"
    /\ exitVia' = "epoch_limit_reached"
    /\ UNCHANGED <<auxVars, lossVars, dataVars, loadVars, stepVars, evalVars, deployVars>>
    /\ UNCHANGED <<alive, epochs, patience, start_epoch, epoch, trainBatches,
                   valBatches, params, train_losses, val_losses, best_val_loss,
                   best_opcode_acc, patience_counter, last_epoch, bestFile,
                   finalFile, configFile, history, trace>>

\* Lines 375-378: train_epoch, then the print that reads 'total', 'opcode',
\* 'valid'.  With no batch the optimizer never steps, total_losses stays
\* empty, train_epoch returns {} and the print raises KeyError.
TrainEpoch ==
    /\ alive /\ pc = "train"
    /\ trace' = Append(trace, "train")
    /\ IF trainBatches = 0
       THEN /\ train_losses' = EmptyDict
            /\ pc' = "error"
            /\ UNCHANGED params
       ELSE /\ train_losses' = [total |-> 1, opcode |-> 1, valid |-> 1]
            /\ params' = Append(params, epoch)
            /\ pc' = "eval"
    /\ UNCHANGED <<auxVars, lossVars, dataVars, loadVars, stepVars, evalVars, deployVars>>
    /\ UNCHANGED <<alive, exitVia, epochs, patience, start_epoch, epoch,
                   trainBatches, valBatches, val_losses, best_val_loss,
                   best_opcode_acc, patience_counter, last_epoch, bestFile,
                   finalFile, configFile, history>>

EvaluateWithStep ==
    /\ alive /\ pc = "eval"
    /\ trace' = Append(trace, "eval")
    /\ params' = Append(params, epoch)
    /\ IF valBatches = 0
       THEN /\ val_losses' = [valid_acc |-> 0, opcode_acc |-> 0]
            /\ pc' = "error"
            /\ UNCHANGED history
       ELSE \E acc \in AccLevels, tot \in LossLevels :
            /\ val_losses' = [total |-> tot, valid_acc |-> 1, opcode_acc |-> acc]
            /\ history' = Append(history, [epoch |-> epoch, opcode_acc |-> acc,
                                           total |-> tot, params |-> params'])
            /\ pc' = "select"
    /\ UNCHANGED <<auxVars, lossVars, dataVars, loadVars, stepVars, evalVars, deployVars>>
    /\ UNCHANGED <<alive, exitVia, epochs, patience, start_epoch, epoch,
                   trainBatches, valBatches, train_losses, best_val_loss,
                   best_opcode_acc, patience_counter, last_epoch, bestFile,
                   finalFile, configFile>>
\* Lines 381-384: evaluate, then the print that reads 'total', 'valid_acc',
\* 'opcode_acc'.  With no batch the mapping has only the two accuracies
\* (both 0) and the print raises KeyError on 'total'.
Evaluate ==
    /\ alive /\ pc = "eval"
    /\ trace' = Append(trace, "eval")
    /\ IF valBatches = 0
       THEN /\ val_losses' = [valid_acc |-> 0, opcode_acc |-> 0]
            /\ pc' = "error"
            /\ UNCHANGED history
       ELSE \E acc \in AccLevels, tot \in LossLevels :
            /\ val_losses' = [total |-> tot, valid_acc |-> 1, opcode_acc |-> acc]
            /\ history' = Append(history, [epoch |-> epoch, opcode_acc |-> acc,
                                           total |-> tot, params |-> params])
            /\ pc' = "select"
    /\ UNCHANGED <<auxVars, lossVars, dataVars, loadVars, stepVars, evalVars, deployVars>>
    /\ UNCHANGED <<alive, exitVia, epochs, patience, start_epoch, epoch,
                   trainBatches, valBatches, params, train_losses, best_val_loss,
                   best_opcode_acc, patience_counter, last_epoch, bestFile,
                   finalFile, configFile>>

\* Lines 392-398: the mapping saved as best_model.pt (the optimizer state,
\* which no claim reads, is left out).
BestCheckpoint(e, p, loss, acc) ==
    [epoch |-> e, model_state_dict |-> p, val_loss |-> loss, opcode_acc |-> acc]

\* Lines 387-407 up to the point where torch.save has opened best_model.pt.
\* improved: the test of line 387; resetTo: the value line 390 gives the
\* counter; limit: the bound of line 403.
SelectStep(improved, resetTo, limit) ==
    /\ alive /\ pc = "select"
    /\ IF improved
       THEN /\ best_opcode_acc' = val_losses.opcode_acc
            /\ best_val_loss' = val_losses.total
            /\ patience_counter' = resetTo
            /\ bestFile' = Torn
            /\ pc' = "saving"
            /\ UNCHANGED <<exitVia, last_epoch>>
       ELSE /\ patience_counter' = patience_counter + 1
            /\ IF patience_counter' >= limit
               THEN /\ pc' = "finalize"
                    /\ exitVia' = "early_stop"
                    /\ UNCHANGED last_epoch
               ELSE /\ pc' = "loop"
                    /\ last_epoch' = last_epoch + 1
                    /\ UNCHANGED exitVia
            /\ UNCHANGED <<best_opcode_acc, best_val_loss, bestFile>>
    /\ UNCHANGED <<auxVars, lossVars, dataVars, loadVars, stepVars, evalVars, deployVars>>
    /\ UNCHANGED <<alive, epochs, patience, start_epoch, epoch, trainBatches,
                   valBatches, params, train_losses, val_losses, finalFile,
                   configFile, history, trace>>

SelectBestTies ==
    SelectStep(val_losses.opcode_acc >= best_opcode_acc, 0, patience)
SelectBestNoReset ==
    SelectStep(val_losses.opcode_acc > best_opcode_acc, patience_counter, patience)
\* Lines 387-407: keep the model when its opcode accuracy is strictly higher,
\* otherwise count the epoch against the patience.
SelectBest ==
    SelectStep(val_losses.opcode_acc > best_opcode_acc, 0, patience)

\* Lines 399-407: torch.save returns with best_model.pt written, then
\* scheduler.step().
SaveComplete ==
    /\ alive /\ pc = "saving"
    /\ bestFile' = BestCheckpoint(epoch, params, best_val_loss, best_opcode_acc)
    /\ last_epoch' = last_epoch + 1
    /\ pc' = "loop"
    /\ UNCHANGED <<auxVars, lossVars, dataVars, loadVars, stepVars, evalVars, deployVars>>
    /\ UNCHANGED <<alive, exitVia, epochs, patience, start_epoch, epoch,
                   trainBatches, valBatches, params, train_losses, val_losses,
                   best_val_loss, best_opcode_acc, patience_counter, finalFile,
                   configFile, history, trace>>

\* Lines 410-413: the final parameters go to the output path.
FinalSave ==
    /\ alive /\ pc = "finalize"
    /\ finalFile' = [bare |-> params]
    /\ trace' = Append(trace, "finalize")
    /\ pc' = "config"
    /\ UNCHANGED <<auxVars, lossVars, dataVars, loadVars, stepVars, evalVars, deployVars>>
    /\ UNCHANGED <<alive, exitVia, epochs, patience, start_epoch, epoch,
                   trainBatches, valBatches, params, train_losses, val_losses,
                   best_val_loss, best_opcode_acc, patience_counter, last_epoch,
                   bestFile, configFile, history>>

\* Lines 416-426: the config mapping is built, reading epoch, and written.
\* When the loop body never ran, epoch is unbound and line 421 raises
\* UnboundLocalError before the file is opened.
WriteConfig ==
    /\ alive /\ pc = "config"
    /\ IF epoch = Unbound
       THEN /\ pc' = "error"
            /\ UNCHANGED configFile
       ELSE /\ configFile' = [best_opcode_acc |-> best_opcode_acc,
                              best_val_loss |-> best_val_loss,
                              epochs_trained |-> epoch + 1]
            /\ pc' = "done"
    /\ UNCHANGED <<auxVars, lossVars, dataVars, loadVars, stepVars, evalVars, deployVars>>
    /\ UNCHANGED <<alive, exitVia, epochs, patience, start_epoch, epoch,
                   trainBatches, valBatches, params, train_losses, val_losses,
                   best_val_loss, best_opcode_acc, patience_counter, last_epoch,
                   bestFile, finalFile, history, trace>>

\* The process is killed (power loss, SIGKILL) at any point of the run.
Crash ==
    /\ alive /\ pc \notin {"done", "error"}
    /\ alive' = FALSE
    /\ UNCHANGED <<auxVars, lossVars, dataVars, loadVars, stepVars, evalVars, deployVars>>
    /\ UNCHANGED <<pc, exitVia, epochs, patience, start_epoch, epoch,
                   trainBatches, valBatches, params, train_losses, val_losses,
                   best_val_loss, best_opcode_acc, patience_counter, last_epoch,
                   bestFile, finalFile, configFile, history, trace>>

TrainNext ==
    \/ EnterEpoch
    \/ LoopExhausted
    \/ TrainEpoch
    \/ Evaluate
    \/ SelectBest
    \/ SaveComplete
    \/ FinalSave
    \/ WriteConfig
    \/ Crash

(***************************************************************************)
(* ParallelDataset.__getitem__ and the generators' padding routines        *)
(***************************************************************************)

NUM_SLOTS == 64
\* Longest instruction list of an input sample or a generated program.
MaxRecs == 66

\* Instruction dicts as they occur in the lines of a data file: a MOV with an
\* immediate, a backward branch (negative immediate), a record with values
\* above every class range, a record with missing fields, and a record with
\* valid = 0 and negative values.
RecordPool ==
    << [valid |-> 1, opcode |-> 28, mode |-> 0, rd |-> 1, rs1 |-> 0, rs2 |-> 0,
        has_imm |-> 1, imm_bin |-> 5],
       [valid |-> 1, opcode |-> 6, mode |-> 1, rd |-> 0, rs1 |-> 2, rs2 |-> 3,
        has_imm |-> 1, imm_bin |-> -24],
       [valid |-> 1, opcode |-> 40, mode |-> 9, rd |-> 33, rs1 |-> 32, rs2 |-> 31,
        has_imm |-> 0, imm_bin |-> 300],
       [valid |-> 1, opcode |-> 29],
       [valid |-> 0, opcode |-> -3, mode |-> -1, rd |-> -2, rs1 |-> 4, rs2 |-> -1,
        has_imm |-> 1, imm_bin |-> -1] >>

\* Instruction objects (the dataclass of the generators).
InstrPool ==
    << [opcode |-> 28, mode |-> 0, rd |-> 0, rs1 |-> 0, rs2 |-> 0, has_imm |-> 1,
        imm |-> 42],
       [opcode |-> 0, mode |-> 0, rd |-> 0, rs1 |-> 0, rs2 |-> 1, has_imm |-> 0,
        imm |-> 7],
       [opcode |-> 6, mode |-> 1, rd |-> 0, rs1 |-> 1, rs2 |-> 0, has_imm |-> 1,
        imm |-> -3],
       [opcode |-> 29, mode |-> 0, rd |-> 0, rs1 |-> 0, rs2 |-> 0, has_imm |-> 0,
        imm |-> 0] >>

\* A list of k elements cycling through a pool from position shift.
Cycle(pool, k, shift) == [i \in 1..k |-> pool[((i + shift) % Len(pool)) + 1]]

\* seq[:n] for n >= 0
SliceAll(seq, n) == seq
Slice(seq, n) == SubSeq(seq, 1, Min(Len(seq), n))

\* instr.get(key, 0)
Get(instr, key) == IF key \in DOMAIN instr THEN instr[key] ELSE 0

\* Lines 114-123: the value stored in targets[name][i] for one record.
FieldValue(name, instr) ==
    CASE name = "valid"   -> Get(instr, "valid")
      [] name = "opcode"  -> Min(Get(instr, "opcode"), 32)
      [] name = "mode"    -> Min(Get(instr, "mode"), 7)
      [] name = "rd"      -> Min(Get(instr, "rd"), 31)
      [] name = "rs1"     -> Min(Get(instr, "rs1"), 31)
      [] name = "rs2"     -> Min(Get(instr, "rs2"), 31)
      [] name = "has_imm" -> Get(instr, "has_imm")
      [] name = "imm_bin" -> Get(instr, "imm_bin") % 256

\* The number of classes of each head (the widths of the prediction heads).
NumClasses ==
    [valid |-> 2, opcode |-> 33, mode |-> 8, rd |-> 32, rs1 |-> 32, rs2 |-> 32,
     has_imm |-> 2, imm_bin |-> 256]

\* Lines 99-108: [0] * self.num_slots for each of the eight fields.
InitialTargets == [name \in Heads |-> [i \in 1..NUM_SLOTS |-> 0]]

RECURSIVE FillLoop(_, _, _)
\* Lines 111-123: the loop over enumerate(instructions), from (1-based)
\* position i.
FillLoop(i, instructions, t) ==
    IF i > Len(instructions) \/ i - 1 >= NUM_SLOTS THEN t
    ELSE FillLoop(i + 1, instructions,
                  [name \in Heads |->
                     [t[name] EXCEPT ![i] = FieldValue(name, instructions[i])]])

\* Lines 95-123 and 127-134: the eight target lists of one sample.
GetItemTargets(instructions) ==
    FillLoop(1, Slice(instructions, NUM_SLOTS), InitialTargets)

\* Instruction.to_dict
ToDict(instr) ==
    [valid |-> 1, opcode |-> instr.opcode, mode |-> instr.mode, rd |-> instr.rd,
     rs1 |-> instr.rs1, rs2 |-> instr.rs2, has_imm |-> instr.has_imm,
     imm_bin |-> IF instr.has_imm # 0 THEN instr.imm ELSE 0]

\* The padding record the generators append.
PadRecord ==
    [valid |-> 0, opcode |-> 0, mode |-> 0, rd |-> 0, rs1 |-> 0, rs2 |-> 0,
     has_imm |-> 0, imm_bin |-> 0]

RECURSIVE PadLoop(_, _)
\* while len(result) < slots: result.append({...})
PadLoop(result, slots) ==
    IF Len(result) < slots THEN PadLoop(Append(result, PadRecord), slots)
    ELSE result

ToDicts(instructions) == [i \in 1..Len(instructions) |-> ToDict(instructions[i])]

\* pad_instructions (and the generators' _pad_instructions), slots = 64.
PadInstructionsList(instructions) ==
    Slice(PadLoop(ToDicts(instructions), NUM_SLOTS), NUM_SLOTS)

\* generate_diverse_samples: the padding of one sample's instruction list.
DiverseInstructions(instructions) ==
    Slice(PadLoop(ToDicts(instructions), NUM_SLOTS), NUM_SLOTS)

DataInit ==
    \E k \in 1..MaxRecs, shift \in 0..(Len(RecordPool) - 1) :
        /\ sample = [kind |-> "sample", instructions |-> Cycle(RecordPool, k, shift)]
        /\ genInstrs = [kind |-> "program",
                        instructions |-> Cycle(InstrPool, k, shift)]
        /\ targets = None
        /\ padded = None

\* dataset[idx] on the sample
GetItem ==
    /\ sample # None /\ targets = None
    /\ targets' = [kind |-> "targets", t |-> GetItemTargets(sample.instructions)]
    /\ UNCHANGED <<sample, genInstrs, padded>>
    /\ UNCHANGED <<auxVars, lossVars, trainVars, loadVars, stepVars, evalVars, deployVars>>

\* A file-based or pattern generator pads its program.
PadInstructions ==
    /\ genInstrs # None /\ padded = None
    /\ padded' = [kind |-> "padded", by |-> "pad_instructions",
                  instructions |-> PadInstructionsList(genInstrs.instructions)]
    /\ UNCHANGED <<sample, genInstrs, targets>>
    /\ UNCHANGED <<auxVars, lossVars, trainVars, loadVars, stepVars, evalVars, deployVars>>

\* The diverse generator pads its program.
GenerateDiverse ==
    /\ genInstrs # None /\ padded = None
    /\ padded' = [kind |-> "padded", by |-> "generate_diverse_samples",
                  instructions |-> DiverseInstructions(genInstrs.instructions)]
    /\ UNCHANGED <<sample, genInstrs, targets>>
    /\ UNCHANGED <<auxVars, lossVars, trainVars, loadVars, stepVars, evalVars, deployVars>>

\* The generated sample is written to the data file and loaded as the
\* dataset's sample.
LoadGenerated ==
    /\ padded # None
    /\ sample.instructions # padded.instructions
    /\ sample' = [kind |-> "sample", instructions |-> padded.instructions]
    /\ targets' = None
    /\ UNCHANGED <<genInstrs, padded>>
    /\ UNCHANGED <<auxVars, lossVars, trainVars, loadVars, stepVars, evalVars, deployVars>>

(***************************************************************************)
(* ParallelDataset.__init__: loading the data file                         *)
(***************************************************************************)

\* Longest data file, in lines.
MaxLines == 3

\* What json.loads makes of a line: text that is no JSON, a JSON number, a
\* JSON list, or a JSON object (with the keys it has; 'instructions' is kept
\* as the length of its list).
LinePool ==
    { [json |-> "invalid"],
      [json |-> "number"],
      [json |-> "list"],
      [json |-> "object", item |-> [instructions |-> 2, category |-> "arith"]],
      [json |-> "object", item |-> [prompt |-> "add"]],
      [json |-> "object", item |-> [prompt |-> "add", instructions |-> 0]],
      [json |-> "object", item |-> [prompt |-> "", instructions |-> 1]],
      [json |-> "object", item |-> [context |-> "ctx", instructions |-> 1]],
      [json |-> "object", item |-> [prompt |-> "mul", instructions |-> 1]],
      [json |-> "object",
       item |-> [prompt |-> "add", instructions |-> 2, category |-> "arith"]] }

\* The data files: every sequence of at most MaxLines lines.
DataFiles == UNION { [1..n -> LinePool] : n \in 0..MaxLines }

\* item.get(key, default)
GetOr(item, key, default) == IF key \in DOMAIN item THEN item[key] ELSE default

\* item.get('context') or item.get('prompt', '')   (a missing context is None,
\* which is false like the empty string)
TextOf(item) ==
    IF GetOr(item, "context", "") # "" THEN item["context"]
    ELSE GetOr(item, "prompt", "")

\* Lines 57-71, the body of the try statement for one line: the exception it
\* raises, or whether it appends and what.  json.loads raises JSONDecodeError
\* on text that is no JSON; a JSON value that is no object has no get method,
\* so line 59 raises AttributeError.
TryBody(line) ==
    IF line.json = "invalid" THEN [exc |-> "JSONDecodeError"]
    ELSE IF line.json # "object" THEN [exc |-> "AttributeError"]
    ELSE LET text         == TextOf(line.item)
             instructions == GetOr(line.item, "instructions", 0)
             category     == GetOr(line.item, "category", "unknown")
         IN  IF text = "" \/ instructions = 0
             THEN [exc |-> "none", append |-> FALSE]
             ELSE [exc |-> "none", append |-> TRUE,
                   sample |-> [text |-> text, instructions |-> instructions,
                               category |-> category]]

\* Line 73: except (json.JSONDecodeError, KeyError)
Caught(exc) == exc \in {"JSONDecodeError", "KeyError"}

\* self.categories[category] += 1   (a Counter)
Count(counter, key) == Put(counter, key, GetOr(counter, key, 0) + 1)

LoadInit ==
    /\ lines \in DataFiles
    /\ max_samples \in 0..MaxLines
    /\ lineNo = 0
    /\ samples = <<>>
    /\ categories = EmptyDict
    /\ loadPc = "reading"

LoadIdle ==
    /\ lines = <<>>
    /\ max_samples = 0
    /\ lineNo = 0
    /\ samples = <<>>
    /\ categories = EmptyDict
    /\ loadPc = "idle"

\* Line 53: if max_samples and i >= max_samples
AtMaxSamples == max_samples # 0 /\ lineNo >= max_samples

\* Lines 52-74: one iteration of the for statement.
ReadLine ==
    /\ loadPc = "reading"
    /\ lineNo < Len(lines)
    /\ ~AtMaxSamples
    /\ lineNo' = lineNo + 1
    /\ LET r == TryBody(lines[lineNo + 1])
       IN  IF r.exc # "none"
           THEN /\ loadPc' = IF Caught(r.exc) THEN "reading" ELSE "raised"
                /\ UNCHANGED <<samples, categories>>
           ELSE IF r.append
           THEN /\ samples' = Append(samples, r.sample)
                /\ categories' = Count(categories, r.sample.category)
                /\ UNCHANGED loadPc
           ELSE UNCHANGED <<samples, categories, loadPc>>
    /\ UNCHANGED <<lines, max_samples>>
    /\ UNCHANGED <<auxVars, lossVars, trainVars, dataVars, stepVars, evalVars, deployVars>>

\* Lines 53-54: break at max_samples.
BreakAtMax ==
    /\ loadPc = "reading"
    /\ lineNo < Len(lines)
    /\ AtMaxSamples
    /\ loadPc' = "loaded"
    /\ UNCHANGED <<lines, max_samples, lineNo, samples, categories>>
    /\ UNCHANGED <<auxVars, lossVars, trainVars, dataVars, stepVars, evalVars, deployVars>>

\* Lines 52 and 76-79: the file is exhausted; the statistics are printed (the
\* division by len(self.samples) is inside the loop over the categories, which
\* is empty when no sample was loaded).
EndOfFile ==
    /\ loadPc = "reading"
    /\ lineNo = Len(lines)
    /\ loadPc' = "loaded"
    /\ UNCHANGED <<lines, max_samples, lineNo, samples, categories>>
    /\ UNCHANGED <<auxVars, lossVars, trainVars, dataVars, stepVars, evalVars, deployVars>>

(***************************************************************************)
(* train_epoch: the statements run for each batch                          *)
(***************************************************************************)

\* Most batches of a training loader.
MaxBatches == 3

StepInit ==
    /\ tpc = "loop"
    /\ scaler \in BOOLEAN
    /\ loaderLen \in 0..MaxBatches
    /\ batchNo = 0
    /\ ops = <<>>
    /\ optimizerSteps = 0
    /\ num_batches = 0

StepIdle ==
    /\ tpc = "idle"
    /\ scaler = FALSE
    /\ loaderLen = 0
    /\ batchNo = 0
    /\ ops = <<>>
    /\ optimizerSteps = 0
    /\ num_batches = 0

\* One statement of the loop body: it is at position at, is recorded as op,
\* and control moves on to position to.
Statement(at, op, to) ==
    /\ tpc = at
    /\ ops' = Append(ops, op)
    /\ tpc' = to
    /\ UNCHANGED <<scaler, loaderLen, batchNo, num_batches>>
    /\ UNCHANGED <<auxVars, lossVars, trainVars, dataVars, loadVars, evalVars, deployVars>>

\* Lines 165-178: the for statement takes the next batch and moves it to the
\* device.
TakeBatch ==
    /\ tpc = "loop"
    /\ batchNo < loaderLen
    /\ batchNo' = batchNo + 1
    /\ ops' = <<>>
    /\ tpc' = "zero_grad"
    /\ UNCHANGED <<scaler, loaderLen, optimizerSteps, num_batches>>
    /\ UNCHANGED <<auxVars, lossVars, trainVars, dataVars, loadVars, evalVars, deployVars>>

\* Line 180: optimizer.zero_grad()
ZeroGrad ==
    /\ Statement("zero_grad", "zero_grad", "forward")
    /\ UNCHANGED optimizerSteps

\* Line 185 (under autocast) or 193: logits = model(tokens)
ForwardPass ==
    /\ Statement("forward", "forward", "loss")
    /\ UNCHANGED optimizerSteps

\* Line 186 (under autocast) or 194: loss, losses = criterion(logits, targets)
ComputeLoss ==
    /\ Statement("loss", "loss", "backward")
    /\ UNCHANGED optimizerSteps

BackwardThenStep ==
    /\ Statement("backward", "backward", "step")
    /\ UNCHANGED optimizerSteps
\* Line 187: scaler.scale(loss).backward(), or line 195: loss.backward()
Backward ==
    /\ Statement("backward", "backward", IF scaler THEN "unscale" ELSE "clip")
    /\ UNCHANGED optimizerSteps

\* Line 188: scaler.unscale_(optimizer)
Unscale ==
    /\ Statement("unscale", "unscale", "clip")
    /\ UNCHANGED optimizerSteps

\* Line 189 or 196: torch.nn.utils.clip_grad_norm_(model.parameters(), 1.0)
ClipGrad ==
    /\ Statement("clip", "clip", "step")
    /\ UNCHANGED optimizerSteps

\* Line 190: scaler.step(optimizer), or line 197: optimizer.step()
OptimizerStep ==
    /\ Statement("step", "step", IF scaler THEN "update" ELSE "accumulate")
    /\ optimizerSteps' = optimizerSteps + 1

\* Line 191: scaler.update()
ScalerUpdate ==
    /\ Statement("update", "update", "accumulate")
    /\ UNCHANGED optimizerSteps

\* Lines 199-202: the batch's losses are added up and num_batches counts it.
Accumulate ==
    /\ tpc = "accumulate"
    /\ num_batches' = num_batches + 1
    /\ tpc' = "loop"
    /\ UNCHANGED <<scaler, loaderLen, batchNo, ops, optimizerSteps>>
    /\ UNCHANGED <<auxVars, lossVars, trainVars, dataVars, loadVars, evalVars, deployVars>>

\* Line 209: the loader is exhausted and the averages are returned.
ReturnAverages ==
    /\ tpc = "loop"
    /\ batchNo = loaderLen
    /\ tpc' = "returned"
    /\ UNCHANGED <<scaler, loaderLen, batchNo, ops, optimizerSteps, num_batches>>
    /\ UNCHANGED <<auxVars, lossVars, trainVars, dataVars, loadVars, evalVars, deployVars>>

(***************************************************************************)
(* evaluate: one pass over the validation loader                           *)
(***************************************************************************)

\* Most batches of a validation loader.
MaxEvalBatches == 2

\* One slot of a validation batch: the target and the predicted (argmax)
\* label of the valid head and of the opcode head.  A valid slot predicted
\* right, one with a wrong opcode, one predicted as padding, a padding slot
\* predicted right (its opcode prediction equals the padded target 0), and a
\* padding slot predicted valid.
SlotPool ==
    { [valid |-> 1, valid_pred |-> 1, opcode |-> 5, opcode_pred |-> 5],
      [valid |-> 1, valid_pred |-> 1, opcode |-> 5, opcode_pred |-> 7],
      [valid |-> 1, valid_pred |-> 0, opcode |-> 6, opcode_pred |-> 6],
      [valid |-> 0, valid_pred |-> 0, opcode |-> 0, opcode_pred |-> 0],
      [valid |-> 0, valid_pred |-> 1, opcode |-> 0, opcode_pred |-> 3] }

\* A batch: the slots of its samples, flattened.
EvalBatchPool ==
    { <<a>> : a \in SlotPool } \cup { <<a, b>> : a \in SlotPool, b \in SlotPool }
EvalLoaders == UNION { [1..n -> EvalBatchPool] : n \in 0..MaxEvalBatches }

\* Line 255: (valid_pred == targets['valid']).sum()
ValidHits(b) == Cardinality({i \in 1..Len(b) : b[i].valid_pred = b[i].valid})
\* Line 259: valid_mask = targets['valid'] == 1, and its sum
ValidMaskSum(b) == Cardinality({i \in 1..Len(b) : b[i].valid = 1})
OpcodeHitsUnmasked(b) ==
    Cardinality({i \in 1..Len(b) : b[i].opcode_pred = b[i].opcode})
\* Line 261: ((opcode_pred == targets['opcode']) & valid_mask).sum()
OpcodeHits(b) ==
    Cardinality({i \in 1..Len(b) : b[i].opcode_pred = b[i].opcode /\ b[i].valid = 1})

EvalInit ==
    /\ evalLoader \in EvalLoaders
    /\ evalNo = 0
    /\ correct_valid = 0
    /\ total_slots = 0
    /\ correct_opcode = 0
    /\ total_valid = 0
    /\ metrics = None

EvalIdle ==
    /\ evalLoader = <<>>
    /\ evalNo = 0
    /\ correct_valid = 0
    /\ total_slots = 0
    /\ correct_opcode = 0
    /\ total_valid = 0
    /\ metrics = None

\* Lines 228-262: one batch of the loop under torch.no_grad().
EvalBatch ==
    /\ metrics = None
    /\ evalNo < Len(evalLoader)
    /\ LET b == evalLoader[evalNo + 1]
       IN  /\ correct_valid' = correct_valid + ValidHits(b)
           /\ total_slots' = total_slots + Len(b)
           /\ IF ValidMaskSum(b) > 0
              THEN /\ correct_opcode' = correct_opcode + OpcodeHits(b)
                   /\ total_valid' = total_valid + ValidMaskSum(b)
              ELSE UNCHANGED <<correct_opcode, total_valid>>
    /\ evalNo' = evalNo + 1
    /\ UNCHANGED <<evalLoader, metrics>>
    /\ UNCHANGED <<auxVars, lossVars, trainVars, dataVars, loadVars, stepVars, deployVars>>

\* A quotient, kept exact as numerator and divisor.
Ratio(n, d) == [num |-> n, den |-> d]

\* Lines 264-269: the accuracies are added to the loss averages and returned.
\* The averages have the keys of the criterion's mapping, so none when the
\* loader had no batch.
EvalReturn ==
    /\ metrics = None
    /\ evalNo = Len(evalLoader)
    /\ metrics' =
          [kind      |-> "metrics",
           loss_keys |-> IF evalNo = 0 THEN {} ELSE Heads \cup {"total"},
           valid_acc  |-> Ratio(correct_valid, Max(1, total_slots)),
           opcode_acc |-> Ratio(correct_opcode, Max(1, total_valid))]
    /\ UNCHANGED <<evalLoader, evalNo, correct_valid, total_slots, correct_opcode,
                   total_valid>>
    /\ UNCHANGED <<auxVars, lossVars, trainVars, dataVars, loadVars, stepVars, deployVars>>

(***************************************************************************)
(* The programs that read a checkpoint: the resume step of main,           *)
(* export_to_onnx and test_inference                                       *)
(***************************************************************************)

\* The architectures a model can be constructed with.
Full256 == [kind |-> "full", max_seq_len |-> 256]
Full128 == [kind |-> "full", max_seq_len |-> 128]
Light   == [kind |-> "light", max_seq_len |-> 0]

\* Entries of a model's state dict, each with the dimension that tells its
\* tensor shape.  ParallelInstructionModel: the embedding (261 x 128), the
\* positional-encoding buffer (1 x max_seq_len x 128), the bias of encoder[2]
\* (BatchNorm1d(256)) and the opcode head (33 x 512).  LightParallelModel:
\* the embedding (261 x 64), the bias of encoder[2] (Conv1d(128, 256)) and
\* heads['opcode'] (33 x 256).
Shapes(arch) ==
    IF arch.kind = "full"
    THEN ("embedding.weight" :> 128) @@ ("pos_encoding.pe" :> arch.max_seq_len)
         @@ ("encoder.2.bias" :> 256) @@ ("opcode_head.weight" :> 512)
    ELSE ("embedding.weight" :> 64) @@ ("encoder.2.bias" :> 256)
         @@ ("heads.opcode.weight" :> 256)

\* A state dict of the architecture whose every tensor holds v.
StateDict(arch, v) ==
    [k \in DOMAIN Shapes(arch) |-> [shape |-> Shapes(arch)[k], val |-> v]]
\* The freshly constructed model (initial values) and the parameters a
\* training run of that architecture has saved.
FreshModel(arch) == StateDict(arch, 0)
TrainedBlob(arch) == StateDict(arch, 1)

\* What torch.load returns: a bare state dict (the final model file, line
\* 411), the mapping of best_model.pt (lines 392-398), or a mapping that holds
\* the state dict under 'model'.
CheckpointFormats == {"bare", "model_state_dict", "model"}
MakeCheckpoint(format, arch) ==
    CASE format = "bare"             -> TrainedBlob(arch)
      [] format = "model_state_dict" -> BestCheckpoint(1, TrainedBlob(arch), 1, 2)
      [] format = "model"            -> [model |-> TrainedBlob(arch)]
Checkpoints ==
    { MakeCheckpoint(f, a) : f \in CheckpointFormats, a \in {Full256, Full128, Light} }

\* nn.Module.load_state_dict(state_dict) with strict=True: every entry whose
\* name is in both and whose shape agrees is copied into the module as it is
\* visited; missing names, unexpected names and shape mismatches are
\* collected, and RuntimeError is raised after the visit if there are any.
LoadStateDictLenient(m, state_dict) ==
    LET copied == {k \in DOMAIN m \cap DOMAIN state_dict :
                       state_dict[k].shape = m[k].shape}
    IN  [model  |-> [k \in DOMAIN m |-> IF k \in copied THEN state_dict[k] ELSE m[k]],
         raised |-> FALSE]
LoadStateDict(m, state_dict) ==
    LET copied == {k \in DOMAIN m \cap DOMAIN state_dict :
                       state_dict[k].shape = m[k].shape}
    IN  [model  |-> [k \in DOMAIN m |-> IF k \in copied THEN state_dict[k] ELSE m[k]],
         raised |-> copied # DOMAIN m \/ DOMAIN state_dict # DOMAIN m]

SelectBareOnly(ck) == ck
\* train.py 346-352 and test_inference.py 68-71: the state dict is the entry
\* 'model_state_dict' if the mapping has one, else the loaded object itself.
SelectStateDict(ck) == IF IsEnriched(ck) THEN ck.model_state_dict ELSE ck

\* export_onnx.py 27-35: 'model_state_dict', else 'model', else the object.
SelectForExport(ck) ==
    IF "model_state_dict" \in DOMAIN ck THEN ck.model_state_dict
    ELSE IF "model" \in DOMAIN ck THEN ck.model
    ELSE ck

\* The model a site constructs: train.py 336-339 and export_onnx.py 38-43
\* follow the --light flag; test_inference.py 73 always builds the full model
\* with max_seq_len = 256.
ArchOf(s, isLight) ==
    IF s = "inference" THEN Full256
    ELSE IF isLight THEN Light ELSE Full256

\* The dict a model's forward returns: for each head name the module whose
\* output it is (model.py 229-238 and 398).
ModelForward(arch) ==
    IF arch.kind = "full"
    THEN [valid |-> "valid_head", opcode |-> "opcode_head", mode |-> "mode_head",
          rd |-> "rd_head", rs1 |-> "rs1_head", rs2 |-> "rs2_head",
          has_imm |-> "has_imm_head", imm_bin |-> "imm_head"]
    ELSE [valid |-> "heads.valid", opcode |-> "heads.opcode", mode |-> "heads.mode",
          rd |-> "heads.rd", rs1 |-> "heads.rs1", rs2 |-> "heads.rs2",
          has_imm |-> "heads.has_imm", imm_bin |-> "heads.imm_bin"]

WrapperForwardSwapped(output) ==
    << output["valid"], output["opcode"], output["mode"], output["rd"],
       output["rs2"], output["rs1"], output["has_imm"], output["imm_bin"] >>
\* export_onnx.py 70-82: ModelWrapper.forward
WrapperForward(output) ==
    << output["valid"], output["opcode"], output["mode"], output["rd"],
       output["rs1"], output["rs2"], output["has_imm"], output["imm_bin"] >>

\* export_onnx.py 95-96: input_names and output_names
INPUT_NAMES == <<"input_ids">>
OUTPUT_NAMES == <<"valid", "opcode", "mode", "rd", "rs1", "rs2", "has_imm", "imm_bin">>

\* export_onnx.py 88-108: the graph torch.onnx.export writes: the i-th output
\* of the wrapper under the i-th output name.  sound tells whether
\* onnx.checker.check_model accepts it.
ExportedGraph(arch, sound) ==
    LET outs == WrapperForward(ModelForward(arch))
    IN  [by |-> "export", sound |-> sound, inputs |-> INPUT_NAMES,
         outputs |-> [i \in 1..Len(OUTPUT_NAMES) |->
                         [name |-> OUTPUT_NAMES[i], tensor |-> outs[i]]]]
\* A file an earlier export left at the output path.
EarlierGraph == [by |-> "earlier", sound |-> TRUE, inputs |-> INPUT_NAMES, outputs |-> <<>>]

\* session.run(None, feed): the outputs in the order of the graph.
SessionRun(graph) == [i \in 1..Len(graph.outputs) |-> graph.outputs[i].tensor]

\* test_inference.py 141: the unpacking of the eight results.
Unpack(result) ==
    [valid_logits |-> result[1], opcode_logits |-> result[2],
     mode_logits |-> result[3], rd_logits |-> result[4], rs1_logits |-> result[5],
     rs2_logits |-> result[6], has_imm_logits |-> result[7],
     imm_bin_logits |-> result[8]]

DeployInit ==
    /\ site \in {"resume", "export", "inference"}
    /\ ckpt \in Checkpoints
    /\ light \in (IF site = "inference" THEN {FALSE} ELSE BOOLEAN)
    /\ sitePc = "load"
    /\ model = None
    /\ written = {}
    /\ outFile \in (IF site = "export" THEN {Absent, EarlierGraph} ELSE {Absent})
    /\ bound = None

DeployIdle ==
    /\ site = "none"
    /\ ckpt = None
    /\ light = FALSE
    /\ sitePc = "idle"
    /\ model = None
    /\ written = {}
    /\ outFile = Absent
    /\ bound = None

\* The load step of a site: the model is constructed, the state dict is
\* selected from the loaded object and load_state_dict is called.
LoadStep(state_dict) ==
    /\ sitePc = "load"
    /\ LET r == LoadStateDict(FreshModel(ArchOf(site, light)), state_dict)
       IN  /\ model' = r.model
           /\ sitePc' = IF r.raised THEN "load_error" ELSE "loaded"
    /\ UNCHANGED <<site, ckpt, light, written, outFile, bound>>
    /\ UNCHANGED <<auxVars, lossVars, trainVars, dataVars, loadVars, stepVars, evalVars>>

\* train.py 336-353
LoadForResume ==
    /\ site = "resume"
    /\ LoadStep(SelectStateDict(ckpt))
\* export_onnx.py 24-47
LoadForExport ==
    /\ site = "export"
    /\ LoadStep(SelectForExport(ckpt))
\* test_inference.py 66-75
LoadForInference ==
    /\ site = "inference"
    /\ LoadStep(SelectStateDict(ckpt))

\* train.py 355-413: the resumed run trains and writes best_model.pt and the
\* final model file.
ResumeTraining ==
    /\ site = "resume"
    /\ sitePc = "loaded"
    /\ model' = [k \in DOMAIN model |-> [model[k] EXCEPT !.val = 2]]
    /\ written' = written \cup {"best_model.pt", "final model"}
    /\ sitePc' = "done"
    /\ UNCHANGED <<site, ckpt, light, outFile, bound>>
    /\ UNCHANGED <<auxVars, lossVars, trainVars, dataVars, loadVars, stepVars, evalVars>>

\* test_inference.py 80-114: the prompts are run through model.predict.
PredictTorch ==
    /\ site = "inference"
    /\ sitePc = "loaded"
    /\ sitePc' = "done"
    /\ UNCHANGED <<site, ckpt, light, model, written, outFile, bound>>
    /\ UNCHANGED <<auxVars, lossVars, trainVars, dataVars, loadVars, stepVars, evalVars>>

\* export_onnx.py 51-110: torch.onnx.export writes the graph to output_path.
ExportGraph ==
    /\ site = "export"
    /\ sitePc = "loaded"
    /\ \E sound \in BOOLEAN :
          outFile' = ExportedGraph(ArchOf(site, light), sound)
    /\ written' = written \cup {"onnx"}
    /\ sitePc' = "check"
    /\ UNCHANGED <<site, ckpt, light, model, bound>>
    /\ UNCHANGED <<auxVars, lossVars, trainVars, dataVars, loadVars, stepVars, evalVars>>

\* export_onnx.py 113-123: the written file is loaded and checked;
\* onnx.checker.check_model raises on a graph that is not valid, and the
\* exception leaves export_to_onnx.
CheckGraph ==
    /\ site = "export"
    /\ sitePc = "check"
    /\ sitePc' = IF outFile.sound THEN "done" ELSE "check_error"
    /\ UNCHANGED <<site, ckpt, light, model, written, outFile, bound>>
    /\ UNCHANGED <<auxVars, lossVars, trainVars, dataVars, loadVars, stepVars, evalVars>>

\* test_inference.py 117-141: test_onnx_inference is run on the file the
\* export left; the session runs a prompt and the eight results are unpacked.
\* (A graph the checker rejected may or may not be accepted by the runtime.)
RunOnnx ==
    /\ site = "export"
    /\ sitePc \in {"done", "check_error"}
    /\ site' = "onnx_inference"
    /\ \E accepted \in (IF outFile.sound THEN {TRUE} ELSE BOOLEAN) :
          IF accepted
          THEN /\ bound' = Unpack(SessionRun(outFile))
               /\ sitePc' = "done"
          ELSE /\ sitePc' = "session_error"
               /\ UNCHANGED bound
    /\ UNCHANGED <<ckpt, light, model, written, outFile>>
    /\ UNCHANGED <<auxVars, lossVars, trainVars, dataVars, loadVars, stepVars, evalVars>>

(***************************************************************************)
(* One instruction on its way from a generator to the inference decoder    *)
(*   src/train/generators/diverse_patterns.py  (opcode numbers, to_dict)   *)
(*   src/train/parallel/train.py               (__getitem__, lines 111-123)*)
(*   src/train/parallel/test_inference.py      (decode_instruction)        *)
(* The slot of the decoder is fed the target classes themselves, i.e. the  *)
(* prediction of a model that learned the training data exactly.           *)
(***************************************************************************)

\* The largest immediate drawn; the smallest is -(MaxImm + 1) \div 2.
MaxImm == 511
ImmRange == (0 - ((MaxImm + 1) \div 2))..MaxImm

\* diverse_patterns.py, lines 20-31: OP_ALU = 0x00 ... OP_EXT_CALL = 0x20.
GeneratorOpcodes ==
    [ALU |-> 0, ALUI |-> 1, MULDIV |-> 2, LOAD |-> 3, STORE |-> 4, BRANCH |-> 6,
     CALL |-> 7, RET |-> 8, JUMP |-> 9, MOV |-> 28, HALT |-> 29, EXT_CALL |-> 32]

\* test_inference.py, lines 19-25; OPCODE_NAMES[k] of the program is
\* OPCODE_NAMES[k + 1] here.
OPCODE_NAMES ==
    <<"NOP", "MOV", "LD", "ST", "ALU", "ALUI", "MULDIV", "MULHI",
      "BRANCH", "JUMP", "CALL", "RET", "COMPARE", "SETCC", "SEXT", "ZEXT",
      "SHIFT", "SHIFTI", "BITOP", "BITOPI", "LEA", "SPECIAL", "FLOAT", "FLOATI",
      "SIMD", "SIMDI", "DEBUG", "HINT", "SYS", "EXT.CALL", "EXT.LOAD", "EXT.STORE",
      "HALT">>

\* test_inference.py, line 28: r0 .. r30 followed by "zero"; the else
\* branches of lines 49-51 format the number.
RegisterName(r) ==
    IF r < 32 THEN (IF r = 31 THEN [name |-> "zero"] ELSE [name |-> "r", n |-> r])
    ELSE [name |-> "r", n |-> r]

\* Line 48.
OpName(opcode) ==
    IF opcode < Len(OPCODE_NAMES) THEN [name |-> OPCODE_NAMES[opcode + 1]]
    ELSE [name |-> "OP", n |-> opcode]

\* A decoder that undoes the wraparound for the signed 8-bit range.
DecodeImmSigned(imm_bin) == IF imm_bin >= 128 THEN imm_bin - 256 ELSE imm_bin
\* Line 55: imm = imm_bin - 128.
DecodeImm(imm_bin) == imm_bin - 128

\* decode_instruction, lines 43-58.  The returned text is kept as its parts.
DecodeInstruction(t) ==
    IF t["valid"] = 0 THEN None
    ELSE [kind |-> "text",
          opname |-> OpName(t["opcode"]),
          mode |-> t["mode"],
          rd_name |-> RegisterName(t["rd"]),
          rs1_name |-> RegisterName(t["rs1"]),
          operand |-> IF t["has_imm"] # 0
                      THEN [imm |-> DecodeImm(t["imm_bin"])]
                      ELSE [reg |-> RegisterName(t["rs2"])]]

\* The instructions a generator emits: every opcode of its table, with and
\* without an immediate.  op is the generator's name of the opcode.
EmittedInstructions ==
    { [op |-> o, opcode |-> GeneratorOpcodes[o], mode |-> 0, rd |-> 1, rs1 |-> 2,
       rs2 |-> 31, has_imm |-> h, imm |-> v] :
        o \in DOMAIN GeneratorOpcodes, h \in {0, 1}, v \in ImmRange }

CodecInit ==
    /\ emitted \in EmittedInstructions
    /\ encoded = None
    /\ decoded = None

CodecIdle ==
    /\ emitted = None
    /\ encoded = None
    /\ decoded = None

\* to_dict of the generator, then lines 111-123 of __getitem__ for the slot
\* the instruction lands in.
EncodeSlot ==
    /\ emitted # None
    /\ encoded = None
    /\ encoded' = [name \in Heads |-> FieldValue(name, ToDict(emitted))]
    /\ UNCHANGED <<emitted, decoded>>
    /\ UNCHANGED <<coreVars, netVars, tokVars, workerVars>>

\* Lines 100-103 of test_pytorch_inference: the slot's classes are decoded.
DecodeSlot ==
    /\ encoded # None
    /\ decoded = None
    /\ decoded' = DecodeInstruction(encoded)
    /\ UNCHANGED <<emitted, encoded>>
    /\ UNCHANGED <<coreVars, netVars, tokVars, workerVars>>

(***************************************************************************)
(* The forward pass of the two models, as tensor shapes                    *)
(*   src/train/parallel/model.py: ParallelInstructionModel.forward,        *)
(*   predict, LightParallelModel.forward                                   *)
(* A tensor is the record of its shape; a layer that raises yields the     *)
(* record of the exception, which every later layer passes on.             *)
(***************************************************************************)

\* Largest batch size drawn, and the max_seq_len the full model is built with
\* (sequence lengths are drawn up to one beyond it).
MaxBatch == 3
MaxSeqLen == 3

Tensor(shape) == [shape |-> shape]
Raised(exc) == [error |-> exc]
IsTensor(t) == "shape" \in DOMAIN t

\* ParallelInstructionModel(max_seq_len = MaxSeqLen) and LightParallelModel().
FullNet  == [kind |-> "full", embed_dim |-> 128, hidden_dim |-> 512, max_seq_len |-> MaxSeqLen]
LightNet == [kind |-> "light", embed_dim |-> 64, hidden_dim |-> 256, max_seq_len |-> 0]

\* nn.Embedding: one vector of dim entries per token.
Embedding(t, dim) == IF IsTensor(t) THEN Tensor(Append(t.shape, dim)) ELSE t

\* PositionalEncoding.forward, line 72: x + self.pe[:, :x.size(1)], where pe
\* has shape (1, max_len, d_model).  The sum broadcasts dimension 1 only
\* if the slice is as long as x or has length 1.
PositionalEncoding(t, max_len) ==
    IF ~IsTensor(t) THEN t
    ELSE LET sliced == Min(t.shape[2], max_len)
         IN  IF sliced = t.shape[2] \/ sliced = 1 THEN t
             ELSE Raised("RuntimeError")

\* x.permute(0, 2, 1)
Permute(t) ==
    IF IsTensor(t) THEN Tensor(<<t.shape[1], t.shape[3], t.shape[2]>>) ELSE t

\* nn.Conv1d(cin, cout, kernel_size = 3, padding = 1) on (batch, cin, length).
Conv1d(t, cin, cout) ==
    IF ~IsTensor(t) THEN t
    ELSE IF t.shape[2] # cin THEN Raised("RuntimeError")
    ELSE Tensor(<<t.shape[1], cout, t.shape[3] + 2 * 1 - 3 + 1>>)

\* nn.BatchNorm1d on (batch, channels, length): in training mode the batch
\* statistics need more than one value per channel.
BatchNorm1d(t, isTraining) ==
    IF ~IsTensor(t) THEN t
    ELSE IF isTraining /\ t.shape[1] * t.shape[3] = 1 THEN Raised("ValueError")
    ELSE t

\* nn.Linear(fin, fout) on the last dimension.
Linear(t, fin, fout) ==
    IF ~IsTensor(t) THEN t
    ELSE IF t.shape[Len(t.shape)] # fin THEN Raised("RuntimeError")
    ELSE Tensor([t.shape EXCEPT ![Len(t.shape)] = fout])

\* Lines 148-157: the CNN encoder of the full model (GELU keeps the shape).
FullEncoder(t, cfg, isTraining) ==
    Conv1d(BatchNorm1d(Conv1d(BatchNorm1d(Conv1d(t, cfg.embed_dim, 256), isTraining),
                              256, 512), isTraining),
           512, cfg.hidden_dim)

\* Lines 363-370: Conv1d, ReLU, Conv1d, ReLU, AdaptiveAvgPool1d(1), Flatten.
LightEncoder(t, cfg) ==
    LET c == Conv1d(Conv1d(t, cfg.embed_dim, 128), 128, cfg.hidden_dim)
    IN  IF IsTensor(c) THEN Tensor(<<c.shape[1], c.shape[2] * 1>>) ELSE c

\* MultiHeadCrossAttention.forward, lines 92-112: the result has the
\* query's batch and length; keys and values come from the encoder.
CrossAttention(query, key, d_model) ==
    IF ~IsTensor(key) THEN key
    ELSE IF key.shape[1] # query.shape[1] \/ key.shape[3] # d_model
         THEN Raised("RuntimeError")
    ELSE Tensor(<<query.shape[1], query.shape[2], d_model>>)

\* The attention block without slot queries: the encoder output itself is
\* passed on to the heads.
SlotsFromEncoder(enc, cfg, batch_size) == enc
\* Lines 219-226: slot_queries (1, 64, hidden) expanded to the batch, two
\* rounds of norm(slots + attn(slots, encoded, encoded)), then the
\* feed-forward block; every step keeps the shape of slots.
SlotsFromQueries(enc, cfg, batch_size) ==
    LET queries == Tensor(<<batch_size, NUM_SLOTS, cfg.hidden_dim>>)
        once    == CrossAttention(queries, enc, cfg.hidden_dim)
        twice   == IF IsTensor(once) THEN CrossAttention(once, enc, cfg.hidden_dim)
                   ELSE once
    IN  Linear(Linear(twice, cfg.hidden_dim, cfg.hidden_dim * 4),
               cfg.hidden_dim * 4, cfg.hidden_dim)

\* Line 395: slot_proj, then view(batch_size, num_slots, -1).
SlotsFromProjection(features, cfg, batch_size) ==
    LET proj == Linear(features, cfg.hidden_dim, NUM_SLOTS * cfg.hidden_dim)
    IN  IF ~IsTensor(proj) THEN proj
        ELSE LET numel == proj.shape[1] * proj.shape[2]
             IN  IF numel % (batch_size * NUM_SLOTS) # 0 THEN Raised("RuntimeError")
                 ELSE Tensor(<<batch_size, NUM_SLOTS, numel \div (batch_size * NUM_SLOTS)>>)

\* Lines 229-238 and 398: one Linear(hidden, classes) per head.
HeadOutputs(slots, cfg) ==
    [name \in Heads |-> Linear(slots, cfg.hidden_dim, NumClasses[name])]

\* Line 258: argmax over the last dimension drops it; the indices lie
\* between 0 and (size of that dimension) - 1.
ArgMax(t) ==
    [shape |-> SubSeq(t.shape, 1, Len(t.shape) - 1),
     lo |-> 0, hi |-> t.shape[Len(t.shape)] - 1]

ForwardInit ==
    /\ net \in {FullNet, LightNet}
    /\ training \in BOOLEAN
    /\ input_ids \in {Tensor(<<b, l>>) : b \in 1..MaxBatch, l \in 1..(MaxSeqLen + 1)}
    /\ fpc = "embed"
    /\ activation = None
    /\ logits = None
    /\ predictions = None

ForwardIdle ==
    /\ net = None
    /\ training = FALSE
    /\ input_ids = None
    /\ fpc = "idle"
    /\ activation = None
    /\ logits = None
    /\ predictions = None

\* One statement group of forward: from position `at`, activation becomes t;
\* an exception ends the call.
ForwardStep(at, t, to) ==
    /\ fpc = at
    /\ activation' = t
    /\ fpc' = IF IsTensor(t) THEN to ELSE "raised"
    /\ UNCHANGED <<net, training, input_ids, logits, predictions>>
    /\ UNCHANGED <<coreVars, codecVars, tokVars, workerVars>>

\* Lines 208-212 (full) and 391 (light: embedding, then permute).
Embed ==
    /\ net # None
    /\ ForwardStep("embed",
                   IF net.kind = "full"
                   THEN PositionalEncoding(Embedding(input_ids, net.embed_dim),
                                           net.max_seq_len)
                   ELSE Permute(Embedding(input_ids, net.embed_dim)),
                   "encode")

\* Lines 215-216 (full) and 392 (light).
Encode ==
    /\ net # None
    /\ ForwardStep("encode",
                   IF net.kind = "full"
                   THEN Permute(FullEncoder(Permute(activation), net, training))
                   ELSE LightEncoder(activation, net),
                   "slots")

\* Lines 219-226 (full) and 395 (light).
MakeSlots ==
    /\ net # None
    /\ ForwardStep("slots",
                   IF net.kind = "full"
                   THEN SlotsFromQueries(activation, net, input_ids.shape[1])
                   ELSE SlotsFromProjection(activation, net, input_ids.shape[1]),
                   "heads")

\* Lines 229-238 (full) and 398 (light): the returned mapping.
ReturnLogits ==
    /\ fpc = "heads"
    /\ logits' = HeadOutputs(activation, net)
    /\ fpc' = "returned"
    /\ UNCHANGED <<net, training, input_ids, activation, predictions>>
    /\ UNCHANGED <<coreVars, codecVars, tokVars, workerVars>>

\* predict, lines 257-258; only ParallelInstructionModel defines it.
Predict ==
    /\ fpc = "returned"
    /\ net.kind = "full"
    /\ predictions' = [k \in DOMAIN logits |-> ArgMax(logits[k])]
    /\ fpc' = "predicted"
    /\ UNCHANGED <<net, training, input_ids, activation, logits>>
    /\ UNCHANGED <<coreVars, codecVars, tokVars, workerVars>>

(***************************************************************************)
(* The two byte-level tokenizers                                           *)
(*   src/train/parallel/train.py, __getitem__ lines 87-93                  *)
(*   src/train/parallel/test_inference.py, tokenize lines 31-40            *)
(* A text is the sequence of its code points.                              *)
(***************************************************************************)

\* Longest text (in code points) and largest token length drawn.
MaxTextLen == 3
MaxTokLen == 4

\* 'A' (one byte in UTF-8), e-acute (two bytes), the euro sign (three bytes).
CodePoints == {65, 233, 8364}
Texts == UNION {[1..n -> CodePoints] : n \in 0..MaxTextLen}

\* str.encode('utf-8') of one code point.
Utf8Char(cp) ==
    IF cp < 128 THEN <<cp>>
    ELSE IF cp < 2048 THEN <<192 + (cp \div 64), 128 + (cp % 64)>>
    ELSE IF cp < 65536
         THEN <<224 + (cp \div 4096), 128 + ((cp \div 64) % 64), 128 + (cp % 64)>>
    ELSE <<240 + (cp \div 262144), 128 + ((cp \div 4096) % 64),
           128 + ((cp \div 64) % 64), 128 + (cp % 64)>>

RECURSIVE Utf8(_)
Utf8(str) == IF str = <<>> THEN <<>> ELSE Utf8Char(Head(str)) \o Utf8(Tail(str))

\* [v] * n
Repeat(v, n) == [i \in 1..n |-> v]

\* train.py lines 88-93.
TrainTokens(str, max_seq_len) ==
    LET text_bytes == Slice(Utf8(str), max_seq_len)
        tokens     == text_bytes
    IN  IF Len(tokens) < max_seq_len
        THEN tokens \o Repeat(256, max_seq_len - Len(tokens))
        ELSE tokens

\* A tokenizer that cuts the text to max_len characters before encoding it.
TokenizeChars(str, max_len) ==
    LET tokens == Utf8(Slice(str, max_len))
    IN  <<IF Len(tokens) < max_len
          THEN tokens \o Repeat(256, max_len - Len(tokens))
          ELSE tokens>>
\* test_inference.py lines 33-40; the result is an array of one row.
Tokenize(str, max_len) ==
    LET bytes_data == Slice(Utf8(str), max_len)
        tokens     == bytes_data
    IN  <<IF Len(tokens) < max_len
          THEN tokens \o Repeat(256, max_len - Len(tokens))
          ELSE tokens>>

TokInit ==
    /\ prompt \in {[chars |-> t] : t \in Texts}
    /\ token_len \in 0..MaxTokLen
    /\ train_tokens = None
    /\ infer_tokens = None

TokIdle ==
    /\ prompt = None
    /\ token_len = 0
    /\ train_tokens = None
    /\ infer_tokens = None

\* The dataset tokenizes the prompt of a sample (max_seq_len = token_len).
TokenizeForTraining ==
    /\ train_tokens = None
    /\ prompt # None
    /\ train_tokens' = [ids |-> TrainTokens(prompt.chars, token_len)]
    /\ UNCHANGED <<prompt, token_len, infer_tokens>>
    /\ UNCHANGED <<coreVars, codecVars, netVars, workerVars>>

\* The inference script tokenizes the same prompt as a prompt.
TokenizeForInference ==
    /\ infer_tokens = None
    /\ prompt # None
    /\ infer_tokens' = [ids |-> Tokenize(prompt.chars, token_len)]
    /\ UNCHANGED <<prompt, token_len, train_tokens>>
    /\ UNCHANGED <<coreVars, codecVars, netVars, workerVars>>

(***************************************************************************)
(* Item accesses by the loader's workers                                   *)
(*   src/train/parallel/train.py, ParallelDataset.__getitem__ (84-136)     *)
(* The workers share one dataset object and interleave at the statement    *)
(* groups of __getitem__ (a forked worker process, which owns a copy, is   *)
(* the special case in which no other worker's step is visible).           *)
(***************************************************************************)

Workers == {"w1", "w2"}

\* Samples as __init__ appends them (lines 66-70); the third has more
\* records than the model has slots.
SamplePool ==
    <<[text |-> <<65>>, instructions |-> Cycle(RecordPool, 1, 0), category |-> "a"],
      [text |-> <<233, 65>>, instructions |-> Cycle(RecordPool, 2, 1), category |-> "b"],
      [text |-> <<8364>>, instructions |-> Cycle(RecordPool, MaxRecs, 2),
       category |-> "unknown"]>>

Datasets ==
    { [samples |-> s, max_seq_len |-> l, num_slots |-> NUM_SLOTS] :
        s \in UNION {[1..n -> {SamplePool[i] : i \in 1..Len(SamplePool)}] : n \in {1, 2}},
        l \in {1, 2} }

\* Lines 125-136: the mapping __getitem__ returns for a sample.
ItemOf(tokens, tgts, category) ==
    [tokens |-> tokens, targets |-> tgts, category |-> category]

\* One sequential call of __getitem__ on a dataset.
GetItemResult(ds, idx) ==
    ItemOf(TrainTokens(ds.samples[idx].text, ds.max_seq_len),
           GetItemTargets(ds.samples[idx].instructions),
           ds.samples[idx].category)

IdleWorker == [pc |-> "idle"]

WorkersInit ==
    /\ dataset \in Datasets
    /\ loaded = dataset
    /\ workers = [w \in Workers |-> IdleWorker]

WorkersIdle ==
    /\ dataset = None
    /\ loaded = None
    /\ workers = [w \in Workers |-> IdleWorker]

\* Line 85: sample = self.samples[idx], for an index the sampler hands out.
\* sample is a reference to the dictionary held by the list.
WorkerFetch(w) ==
    /\ workers[w].pc \in {"idle", "returned"}
    /\ \E idx \in 1..Len(dataset.samples) :
          workers' = [workers EXCEPT ![w] = [pc |-> "fetched", idx |-> idx]]
    /\ UNCHANGED <<dataset, loaded>>
    /\ UNCHANGED <<coreVars, codecVars, netVars, tokVars>>

\* Lines 88-93: the padded token list, a new list.
WorkerTokenize(w) ==
    /\ workers[w].pc = "fetched"
    /\ workers' = [workers EXCEPT ![w] =
          [pc |-> "tokenized", idx |-> workers[w].idx,
           tokens |-> TrainTokens(dataset.samples[workers[w].idx].text,
                                  dataset.max_seq_len)]]
    /\ UNCHANGED <<dataset, loaded>>
    /\ UNCHANGED <<coreVars, codecVars, netVars, tokVars>>

\* The slice of line 96 written back into the sample.
WorkerTargetsInPlace(w) ==
    /\ workers[w].pc = "tokenized"
    /\ workers' = [workers EXCEPT ![w] =
          [pc |-> "built", idx |-> workers[w].idx, tokens |-> workers[w].tokens,
           targets |-> GetItemTargets(dataset.samples[workers[w].idx].instructions)]]
    /\ dataset' = [dataset EXCEPT !.samples[workers[w].idx].instructions =
                      Slice(@, dataset.num_slots)]
    /\ UNCHANGED loaded
    /\ UNCHANGED <<coreVars, codecVars, netVars, tokVars>>
\* Lines 96-123: the slice of the instruction list (a copy) and the eight
\* target lists, all local to the call.
WorkerTargets(w) ==
    /\ workers[w].pc = "tokenized"
    /\ workers' = [workers EXCEPT ![w] =
          [pc |-> "built", idx |-> workers[w].idx, tokens |-> workers[w].tokens,
           targets |-> GetItemTargets(dataset.samples[workers[w].idx].instructions)]]
    /\ UNCHANGED <<dataset, loaded>>
    /\ UNCHANGED <<coreVars, codecVars, netVars, tokVars>>

\* Lines 125-136: the returned mapping, with sample['category'].
WorkerReturn(w) ==
    /\ workers[w].pc = "built"
    /\ workers' = [workers EXCEPT ![w] =
          [pc |-> "returned", idx |-> workers[w].idx,
           item |-> ItemOf(workers[w].tokens, workers[w].targets,
                           dataset.samples[workers[w].idx].category)]]
    /\ UNCHANGED <<dataset, loaded>>
    /\ UNCHANGED <<coreVars, codecVars, netVars, tokVars>>

(***************************************************************************)
(* Specifications                                                          *)
(***************************************************************************)

DataIdle ==
    /\ sample = None
    /\ genInstrs = None
    /\ targets = None
    /\ padded = None

RestIdle == LoadIdle /\ StepIdle /\ EvalIdle /\ DeployIdle
CoreIdle == LossIdle /\ TrainIdle /\ DataIdle /\ RestIdle
AuxIdle == CodecIdle /\ ForwardIdle /\ TokIdle /\ WorkersIdle

\* One call of the loss.
InitLoss == LossInit /\ TrainIdle /\ DataIdle /\ RestIdle /\ AuxIdle
NextLoss == Forward
SpecLoss == InitLoss /\ [][NextLoss]_vars

\* One training run.
Init == TrainInit /\ LossIdle /\ DataIdle /\ RestIdle /\ AuxIdle
Next == TrainNext
Spec == Init /\ [][Next]_vars

\* One sample through the generators' padding and the dataset wrapper.
InitData == DataInit /\ LossIdle /\ TrainIdle /\ RestIdle /\ AuxIdle
NextData ==
    \/ GetItem
    \/ PadInstructions
    \/ GenerateDiverse
    \/ LoadGenerated
SpecData == InitData /\ [][NextData]_vars

\* Loading one data file.
InitLoad == LoadInit /\ LossIdle /\ TrainIdle /\ DataIdle /\ StepIdle /\ EvalIdle /\ DeployIdle /\ AuxIdle
NextLoad ==
    \/ ReadLine
    \/ BreakAtMax
    \/ EndOfFile
SpecLoad == InitLoad /\ [][NextLoad]_vars

\* One call of train_epoch.
InitStep == StepInit /\ LossIdle /\ TrainIdle /\ DataIdle /\ LoadIdle /\ EvalIdle /\ DeployIdle /\ AuxIdle
NextStep ==
    \/ TakeBatch
    \/ ZeroGrad
    \/ ForwardPass
    \/ ComputeLoss
    \/ Backward
    \/ Unscale
    \/ ClipGrad
    \/ OptimizerStep
    \/ ScalerUpdate
    \/ Accumulate
    \/ ReturnAverages
SpecStep == InitStep /\ [][NextStep]_vars

\* One call of evaluate.
InitEval == EvalInit /\ LossIdle /\ TrainIdle /\ DataIdle /\ LoadIdle /\ StepIdle /\ DeployIdle /\ AuxIdle
NextEval ==
    \/ EvalBatch
    \/ EvalReturn
SpecEval == InitEval /\ [][NextEval]_vars

\* One run of a program that reads a checkpoint.
InitDeploy == DeployInit /\ LossIdle /\ TrainIdle /\ DataIdle /\ LoadIdle /\ StepIdle /\ EvalIdle /\ AuxIdle
NextDeploy ==
    \/ LoadForResume
    \/ LoadForExport
    \/ LoadForInference
    \/ ResumeTraining
    \/ PredictTorch
    \/ ExportGraph
    \/ CheckGraph
    \/ RunOnnx
SpecDeploy == InitDeploy /\ [][NextDeploy]_vars

\* One instruction: emitted, encoded as a training target, decoded.
InitCodec == CodecInit /\ CoreIdle /\ ForwardIdle /\ TokIdle /\ WorkersIdle
NextCodec ==
    \/ EncodeSlot
    \/ DecodeSlot
SpecCodec == InitCodec /\ [][NextCodec]_vars

\* One call of forward (and of predict) on a batch of token ids.
InitForward == ForwardInit /\ CoreIdle /\ CodecIdle /\ TokIdle /\ WorkersIdle
NextForward ==
    \/ Embed
    \/ Encode
    \/ MakeSlots
    \/ ReturnLogits
    \/ Predict
SpecForward == InitForward /\ [][NextForward]_vars

\* One text through both tokenizers.
InitTok == TokInit /\ CoreIdle /\ CodecIdle /\ ForwardIdle /\ WorkersIdle
NextTok ==
    \/ TokenizeForTraining
    \/ TokenizeForInference
SpecTok == InitTok /\ [][NextTok]_vars

\* The loader's workers reading items of one dataset.
InitWorkers == WorkersInit /\ CoreIdle /\ CodecIdle /\ ForwardIdle /\ TokIdle
NextWorkers ==
    \E w \in Workers :
        \/ WorkerFetch(w)
        \/ WorkerTokenize(w)
        \/ WorkerTargets(w)
        \/ WorkerReturn(w)
SpecWorkers == InitWorkers /\ [][NextWorkers]_vars

(***************************************************************************)
(* Properties of the loss (checked under SpecLoss)                         *)
(***************************************************************************)

Returned == losses # None
ValidElems == {s \in Elems : batch.valid[s] = 1}
PaddingElems == Elems \ ValidElems
WeightedNums == [h \in Heads |-> Weights2[h] * losses[h].num]

\* C1: the total returned by forward is the sum over the eight heads of
\* weight[head] times that head's reported average (twice the total is the
\* sum of the doubled weights times the averages, divisor by divisor), and
\* the returned mapping has exactly the eight heads plus 'total'.
C1_TotalIsWeightedSum ==
    Returned =>
        /\ DOMAIN losses = Heads \cup {"total"}
        /\ losses["total"] = total_loss
        /\ \A h \in Heads :
              IF h = "valid"
              THEN losses[h].eps = 0 /\ losses[h].cnt = NumElems
              ELSE losses[h].eps = 1 /\ losses[h].cnt = Cardinality(ValidElems)
        /\ 2 * total_loss.mean =
              SumOver({h \in Heads : losses[h].eps = 0}, WeightedNums)
        /\ 2 * total_loss.masked =
              SumOver({h \in Heads : losses[h].eps = 1}, WeightedNums)

\* A returned call in which the differently weighted heads all have a
\* non-zero average.
C1_Witness ==
    /\ Returned
    /\ losses["valid"].num > 0 /\ losses["opcode"].num > 0
    /\ losses["mode"].num > 0 /\ losses["imm_bin"].num > 0
    /\ total_loss.mean > 0 /\ total_loss.masked > 0

CEValues == {CELevels[i] : i \in 1..Len(CELevels)}

\* C2: each masked head's loss is the sum of the per-element losses of the
\* valid elements over (valid count + epsilon), and it is the same for every
\* batch that differs from this one only in the padding elements.
C2_PaddingIgnored ==
    Returned =>
        \A h \in MaskedHeads :
            /\ losses[h] = [num |-> SumOver(ValidElems, batch.ce[h]),
                            cnt |-> Cardinality(ValidElems), eps |-> 1]
            /\ \A c2 \in [Elems -> CEValues] :
                  (\A s \in ValidElems : c2[s] = batch.ce[h][s])
                      => HeadLoss(h, [batch EXCEPT !.ce[h] = c2]) = losses[h]

\* A returned call on a batch with a valid element and with a padding element
\* that has a non-zero per-element loss in the opcode and immediate heads.
C2_Witness ==
    /\ Returned
    /\ ValidElems # {}
    /\ \E s \in PaddingElems :
          batch.ce["opcode"][s] > 0 /\ batch.ce["imm_bin"][s] > 0

\* C3: the valid head's loss is the mean over all elements: valid and
\* padding elements enter the sum alike and the divisor is the (positive)
\* number of elements, whatever the mask.
C3_ValidHeadUnmasked ==
    Returned =>
        /\ losses["valid"].num =
              SumOver(ValidElems, batch.ce["valid"])
                  + SumOver(PaddingElems, batch.ce["valid"])
        /\ losses["valid"].cnt = NumElems
        /\ losses["valid"].eps = 0
        /\ losses["valid"].cnt * EpsInv + losses["valid"].eps > 0

\* A returned call on an all-padding batch whose valid head has a non-zero
\* loss.
C3_Witness ==
    /\ Returned
    /\ ValidElems = {}
    /\ losses["valid"].num > 0

\* C4: the divisor of every masked head (valid count + epsilon, in units of
\* epsilon) is positive; with no valid element the seven masked losses are 0
\* and the total is the weighted valid-head loss.
C4_NoDivisionByZero ==
    Returned =>
        /\ \A h \in MaskedHeads : losses[h].cnt * EpsInv + losses[h].eps > 0
        /\ ValidElems = {} =>
              /\ \A h \in MaskedHeads : losses[h].num = 0
              /\ 2 * total_loss.mean = Weights2["valid"] * losses["valid"].num
              /\ total_loss.masked = 0

\* A returned call on an all-padding batch with non-zero per-element losses
\* in the valid head and in masked heads.
C4_Witness ==
    /\ Returned
    /\ ValidElems = {}
    /\ \E s \in Elems : batch.ce["valid"][s] > 0
    /\ \E s \in Elems : batch.ce["opcode"][s] > 0 /\ batch.ce["rd"][s] > 0

(***************************************************************************)
(* Properties of the training run (checked under Spec)                     *)
(***************************************************************************)

SetMax(S) == CHOOSE x \in S : \A y \in S : y <= x
\* The maximum of 0 and the validation opcode accuracies of the evaluations h.
BestSoFar(h) == SetMax({0} \cup {h[i].opcode_acc : i \in 1..Len(h)})
\* The earliest evaluation that attained that maximum.
Earliest(h) ==
    CHOOSE i \in 1..Len(h) :
        /\ h[i].opcode_acc = BestSoFar(h)
        /\ \A j \in 1..(i - 1) : h[j].opcode_acc # BestSoFar(h)
CheckpointOfEval(e) == BestCheckpoint(e.epoch, e.params, e.total, e.opcode_acc)
\* The last evaluation has been acted on (and its save, if any, has returned).
Decided == Len(history) > 0 /\ pc \notin {"select", "saving"}

\* C5 as stated: after every evaluation best_opcode_acc is the maximum of 0
\* and the accuracies seen, and best_model.pt holds the earliest epoch that
\* attained it.
C5_AsStated ==
    Decided =>
        /\ best_opcode_acc = BestSoFar(history)
        /\ bestFile = CheckpointOfEval(history[Earliest(history)])

\* C5 amended: after every evaluation best_opcode_acc is the maximum of 0 and
\* the accuracies seen; when that maximum is positive best_model.pt holds the
\* parameters, epoch, loss and accuracy of the earliest epoch that attained
\* it (so a tie or a lower loss never replaced it); while it is 0 the run has
\* written no best checkpoint.
C5_BestIsEarliestMaximum ==
    Decided =>
        /\ best_opcode_acc = BestSoFar(history)
        /\ IF BestSoFar(history) > 0
           THEN bestFile = CheckpointOfEval(history[Earliest(history)])
           ELSE /\ bestFile # Torn
                /\ \A i \in 1..Len(history) : bestFile # CheckpointOfEval(history[i])

\* A best epoch followed by an epoch of the same accuracy and a lower loss.
C5_Witness ==
    /\ Decided
    /\ Len(history) >= 2
    /\ history[1].opcode_acc > 0
    /\ history[2].opcode_acc = history[1].opcode_acc
    /\ history[2].total < history[1].total
    /\ bestFile = CheckpointOfEval(history[1])

RECURSIVE Trailing(_)
\* The number of consecutive most recent evaluations of h that did not
\* strictly improve on the best before them.
Trailing(h) ==
    IF Len(h) = 0 THEN 0
    ELSE LET prev == SubSeq(h, 1, Len(h) - 1)
         IN  IF h[Len(h)].opcode_acc > BestSoFar(prev) THEN 0
             ELSE 1 + Trailing(prev)
\* The evaluations the selection step has acted on.
Processed ==
    IF pc = "select" THEN SubSeq(history, 1, Len(history) - 1) ELSE history

CounterIsTrailing == patience_counter = Trailing(Processed)
StopsExactlyAtPatience ==
    (Len(history) > 0 /\ pc # "select")
        => ((exitVia = "early_stop") <=> (patience_counter = patience))
StopIsImmediate ==
    exitVia = "early_stop" =>
        LET n == Len(trace)
        IN  /\ n >= 2
            /\ trace[n] \in {"eval", "finalize"}
            /\ trace[n] = "finalize" => trace[n - 1] = "eval"

\* C6 as stated: the counter is the number of trailing non-improving epochs,
\* and the run has stopped early exactly when the counter equals the patience.
C6_AsStated ==
    /\ CounterIsTrailing
    /\ StopsExactlyAtPatience
    /\ StopIsImmediate

\* C6 amended: the counter is the number of trailing non-improving epochs;
\* for a patience of at least 1 the run has stopped early exactly when the
\* counter equals the patience, right after that epoch's evaluation.
C6_PatienceCounter ==
    /\ CounterIsTrailing
    /\ patience >= 1 => StopsExactlyAtPatience
    /\ StopIsImmediate

\* An improvement followed by as many non-improving epochs as the patience
\* (at least two), ending in an early stop.
C6_Witness ==
    /\ exitVia = "early_stop"
    /\ patience >= 2
    /\ Len(history) = patience + 1
    /\ history[1].opcode_acc > 0

Pairs == Cardinality({i \in 1..Len(trace) : trace[i] = "eval"})

\* C7: a train_epoch starts the run or follows an evaluate, an evaluate
\* follows a train_epoch, finalize follows an evaluate (or nothing) and ends
\* the calls; the number of pairs is at most max(0, epochs - start_epoch) and
\* equals it when the loop ends by the epoch limit.
C7_EpochsSequential ==
    /\ \A i \in 1..Len(trace) :
          /\ trace[i] = "train" => (i = 1 \/ trace[i - 1] = "eval")
          /\ trace[i] = "eval" => (i > 1 /\ trace[i - 1] = "train")
          /\ trace[i] = "finalize" =>
                (i = Len(trace) /\ (i = 1 \/ trace[i - 1] = "eval"))
    /\ Pairs <= Max(0, epochs - start_epoch)
    /\ exitVia = "epoch_limit_reached" => Pairs = Max(0, epochs - start_epoch)

\* A run of at least two epochs that ended by the epoch limit and finished.
C7_Witness ==
    /\ pc = "done"
    /\ exitVia = "epoch_limit_reached"
    /\ Pairs >= 2

\* C8: a run with non-empty loaders never ends in an error, and a finished
\* run has left the loop through early_stop or epoch_limit_reached and has
\* written the final parameter file and the config file with epochs_trained.
C8_FinalizeCompletes ==
    (trainBatches > 0 /\ valBatches > 0) =>
        /\ pc # "error"
        /\ pc = "done" =>
              /\ exitVia \in {"early_stop", "epoch_limit_reached"}
              /\ finalFile # Absent
              /\ "epochs_trained" \in DOMAIN configFile

\* C9: best_model.pt is absent or a complete checkpoint at every instant.
C9_BestFileNeverTorn == bestFile # Torn

\* The learning rate is CosineAnnealingLR's closed form of the scheduler
\* position last_epoch, T_max = args.epochs and the base rate; it decreases
\* strictly over the positions 0..T_max, so the rate in effect is the
\* schedule's value at position e exactly when last_epoch = e.
\* C13: while the epoch with index e is trained the scheduler is at position
\* e (one scheduler step per earlier epoch index), whatever the patience
\* counter, the best accuracy and the epoch the run was resumed from.
C13_RateFollowsEpochIndex ==
    pc \in {"train", "eval", "select", "saving"} => last_epoch = epoch

\* C16: the step in which evaluate runs changes neither the parameters (and
\* with them the optimizer state: params has one entry per train_epoch call,
\* the only place where the optimizer steps) nor the scheduler position, the
\* best accuracy, the best loss, the patience counter or any file; only
\* val_losses (and the ghost history and trace) carry its effect.
C16_EvaluateFrame ==
    [][(pc = "eval" /\ pc' # "eval") =>
          /\ UNCHANGED <<params, last_epoch, best_opcode_acc, best_val_loss,
                         patience_counter, train_losses>>
          /\ UNCHANGED <<bestFile, finalFile, configFile, epoch, start_epoch>>]_vars

\* An evaluation has returned its metrics after at least one trained epoch.
C16_Witness ==
    /\ pc = "select"
    /\ Len(history) > 0
    /\ Len(params) > 0
    /\ "opcode_acc" \in DOMAIN val_losses

(***************************************************************************)
(* Properties of the dataset wrapper and the generators (under SpecData)   *)
(***************************************************************************)

\* C10: each of the eight target lists has length 64, slot i carries record
\* i (as the loader converts it) for i up to min(k, 64), every later slot is
\* 0 in all eight fields; a padding routine returns exactly 64 records, the
\* program's instructions first with valid = 1, then all-zero records.
C10_SixtyFourSlots ==
    /\ targets # None =>
          \A name \in Heads :
              /\ Len(targets.t[name]) = 64
              /\ \A i \in 1..64 :
                    targets.t[name][i] =
                        IF i <= Len(sample.instructions)
                        THEN FieldValue(name, sample.instructions[i])
                        ELSE 0
    /\ padded # None =>
          /\ Len(padded.instructions) = 64
          /\ \A i \in 1..64 :
                IF i <= Len(genInstrs.instructions)
                THEN /\ padded.instructions[i] = ToDict(genInstrs.instructions[i])
                     /\ padded.instructions[i].valid = 1
                ELSE \A name \in Heads : padded.instructions[i][name] = 0

\* A sample and a program of more than 64 records, both processed.
C10_Witness ==
    /\ targets # None /\ padded # None
    /\ Len(sample.instructions) > 64
    /\ Len(genInstrs.instructions) > 64

\* C11: every target the dataset wrapper produces lies inside the class
\* range of its head (opcode in 0..32, mode in 0..7, rd, rs1, rs2 in 0..31,
\* valid and has_imm in 0..1, imm_bin in 0..255), whatever integers the
\* record supplies, negative ones included.
C11_TargetsInRange ==
    targets # None =>
        \A name \in Heads : \A i \in 1..NUM_SLOTS :
            targets.t[name][i] \in 0..(NumClasses[name] - 1)

(***************************************************************************)
(* Properties of the loader (checked under SpecLoad)                       *)
(***************************************************************************)

\* The prompt field of a record: 'context', with 'prompt' as its alias.
PromptField(item) ==
    IF GetOr(item, "context", "") # "" THEN item["context"]
    ELSE GetOr(item, "prompt", "")
\* A well-formed record: an object with a non-empty prompt and a non-empty
\* instruction list.
WellFormed(line) ==
    /\ line.json = "object"
    /\ PromptField(line.item) # ""
    /\ GetOr(line.item, "instructions", 0) # 0
WellFormedLines == SelectSeq(lines, WellFormed)

\* C12: loading never raises, whatever the lines are, and when the whole
\* file has been read the loaded samples are exactly the well-formed records
\* in file order.
C12_LoadSkipsMalformed ==
    /\ loadPc # "raised"
    /\ (loadPc = "loaded" /\ max_samples = 0) =>
          /\ Len(samples) = Len(WellFormedLines)
          /\ \A i \in 1..Len(samples) :
                /\ samples[i].text = PromptField(WellFormedLines[i].item)
                /\ samples[i].instructions = WellFormedLines[i].item.instructions

(***************************************************************************)
(* Properties of train_epoch (checked under SpecStep)                      *)
(***************************************************************************)

\* The calls of one batch, in order, on the mixed-precision and the plain path.
StatedOrder ==
    IF scaler
    THEN <<"zero_grad", "forward", "loss", "backward", "unscale", "clip", "step",
           "update">>
    ELSE <<"zero_grad", "forward", "loss", "backward", "clip", "step">>
\* Position of the first occurrence of op in the calls of the current batch
\* (0 when it has not occurred).
FirstAt(op) ==
    IF \E i \in 1..Len(ops) : ops[i] = op
    THEN CHOOSE i \in 1..Len(ops) : ops[i] = op /\ \A j \in 1..(i - 1) : ops[j] # op
    ELSE 0
Occurrences(op) == Cardinality({i \in 1..Len(ops) : ops[i] = op})

\* C14: in every batch, on both paths, the calls made so far are an initial
\* part of: zero_grad, forward, loss, backward, (unscale,) clip, step,
\* (update); a batch is complete only with all of them made; clipping comes
\* after backward and before the optimizer step, unscaling before clipping
\* and the scaler update after the step; one optimizer step is attempted per
\* batch.
C14_BatchStepOrder ==
    /\ Len(ops) <= Len(StatedOrder)
    /\ ops = SubSeq(StatedOrder, 1, Len(ops))
    /\ tpc = "accumulate" => ops = StatedOrder
    /\ FirstAt("step") > 0 =>
          /\ 0 < FirstAt("backward")
          /\ FirstAt("backward") < FirstAt("clip")
          /\ FirstAt("clip") < FirstAt("step")
          /\ scaler => FirstAt("unscale") \in (FirstAt("backward") + 1)..(FirstAt("clip") - 1)
    /\ FirstAt("update") > 0 => scaler /\ FirstAt("step") < FirstAt("update")
    /\ Occurrences("step") <= 1
    /\ tpc \in {"accumulate", "loop", "returned"} =>
          optimizerSteps = batchNo
    /\ tpc \in {"loop", "returned"} => num_batches = batchNo

\* The second batch of a mixed-precision epoch has made all its calls.
C14_Witness ==
    /\ scaler
    /\ batchNo = 2
    /\ tpc = "accumulate"
    /\ optimizerSteps = 2
    /\ Len(ops) = 8

(***************************************************************************)
(* Properties of evaluate (checked under SpecEval)                         *)
(***************************************************************************)

\* Every slot of the validation set, as (batch, position in the batch).
AllSlots ==
    UNION { { <<i, j>> : j \in 1..Len(evalLoader[i]) } : i \in 1..Len(evalLoader) }
SlotAt(p) == evalLoader[p[1]][p[2]]
TargetValidSlots == {p \in AllSlots : SlotAt(p).valid = 1}

\* C15: valid_acc is the share of all slots (padding included) whose
\* predicted valid label equals the target, opcode_acc is the share of the
\* slots with target valid = 1 whose predicted opcode equals the target;
\* both lie in [0, 1] and opcode_acc is 0 when no slot is valid.
C15_Accuracies ==
    metrics # None =>
        LET va == metrics.valid_acc
            oa == metrics.opcode_acc
            validRight  == Cardinality({p \in AllSlots :
                               SlotAt(p).valid_pred = SlotAt(p).valid})
            opcodeRight == Cardinality({p \in TargetValidSlots :
                               SlotAt(p).opcode_pred = SlotAt(p).opcode})
        IN  /\ va.den > 0 /\ oa.den > 0
            /\ AllSlots # {} =>
                  va.num * Cardinality(AllSlots) = validRight * va.den
            /\ TargetValidSlots # {} =>
                  oa.num * Cardinality(TargetValidSlots) = opcodeRight * oa.den
            /\ 0 <= va.num /\ va.num <= va.den
            /\ 0 <= oa.num /\ oa.num <= oa.den
            /\ oa.num <= Cardinality(TargetValidSlots)
            /\ TargetValidSlots = {} => oa.num = 0

\* A pass over two batches, one of padding only (with a padding slot whose
\* opcode prediction equals its target) and one with valid slots of which
\* some but not all have the right opcode.
C15_Witness ==
    /\ metrics # None
    /\ Len(evalLoader) = 2
    /\ \E i \in 1..2 : ValidMaskSum(evalLoader[i]) = 0
                        /\ OpcodeHitsUnmasked(evalLoader[i]) > 0
    /\ 0 < metrics.opcode_acc.num
    /\ metrics.opcode_acc.num < metrics.opcode_acc.den
    /\ metrics.valid_acc.num < metrics.valid_acc.den

(***************************************************************************)
(* Properties of the checkpoint readers (checked under SpecDeploy)         *)
(***************************************************************************)

\* The state dict a checkpoint holds, whatever mapping it is wrapped in.
BlobOf(ck) ==
    IF "model_state_dict" \in DOMAIN ck THEN ck.model_state_dict
    ELSE IF "model" \in DOMAIN ck THEN ck.model
    ELSE ck
\* The names and shapes of a state dict.
ShapesOf(sd) == [k \in DOMAIN sd |-> sd[k].shape]
Loading == site \in {"resume", "export", "inference"}
SiteArch == ArchOf(site, light)
\* The checkpoint's tensors do not have the shapes of the constructed model.
ShapeMismatch == Loading /\ ShapesOf(BlobOf(ckpt)) # Shapes(SiteArch)
PastLoad == Loading /\ sitePc # "load"
IsExportGraph(f) == "by" \in DOMAIN f /\ f.by = "export"

\* C17 as stated: with a checkpoint of other shapes the run aborts at the
\* load step with every parameter of the model as it was constructed, and
\* nothing is trained or written.
C17_AsStated ==
    (ShapeMismatch /\ PastLoad) =>
        /\ sitePc = "load_error"
        /\ model = FreshModel(SiteArch)
        /\ written = {}
        /\ ~IsExportGraph(outFile)

\* C17, amended: with a checkpoint of other shapes the run aborts at the
\* load step and nothing is trained or written afterwards; the model object
\* the run abandons has kept every tensor whose shape did not match and has
\* taken the checkpoint's value for those whose name and shape did match.
C17_AbortsAtLoad ==
    (ShapeMismatch /\ PastLoad) =>
        /\ sitePc = "load_error"
        /\ written = {}
        /\ ~IsExportGraph(outFile)
        /\ bound = None
        /\ \A k \in DOMAIN model :
              \/ model[k] = FreshModel(SiteArch)[k]
              \/ /\ k \in DOMAIN BlobOf(ckpt)
                 /\ BlobOf(ckpt)[k].shape = model[k].shape
                 /\ model[k] = BlobOf(ckpt)[k]

\* A full-size checkpoint was given to a site that built the lightweight
\* model: the load has raised after copying the one entry that matches.
C17_Witness ==
    /\ ShapeMismatch
    /\ sitePc = "load_error"
    /\ light /\ BlobOf(ckpt) = TrainedBlob(Full256)
    /\ model # FreshModel(SiteArch)

FormatOf(ck) ==
    IF "model_state_dict" \in DOMAIN ck THEN "model_state_dict"
    ELSE IF "model" \in DOMAIN ck THEN "model"
    ELSE "bare"
\* The two formats the training loop writes.
Written(ck) == FormatOf(ck) \in {"bare", "model_state_dict"}

\* C18 as stated: a bare or enriched file written by the training loop is
\* accepted by each of the three sites (a site rejects it at most when it was
\* started with the flag of the other architecture) and loads the file's
\* parameters.
C18_AsStated ==
    (PastLoad /\ Written(ckpt) /\ BlobOf(ckpt) \in {TrainedBlob(Full256), TrainedBlob(Light)}) =>
        \/ sitePc # "load_error" /\ (sitePc = "loaded" => model = BlobOf(ckpt))
        \/ site \in {"resume", "export"} /\ ShapeMismatch

\* C18, amended: at each of the three sites the outcome of the load depends
\* on the state dict only, not on whether it comes bare or under
\* 'model_state_dict': it is accepted, and the model holds exactly its
\* parameters, when it has the shapes of the model the site constructs, and
\* it is rejected otherwise (the inference script constructs the full model
\* with max_seq_len 256 only).
C18_FormatsEquivalent ==
    (PastLoad /\ Written(ckpt)) =>
        IF ShapeMismatch
        THEN sitePc = "load_error"
        ELSE /\ sitePc # "load_error"
             /\ sitePc = "loaded" => model = BlobOf(ckpt)

\* An enriched checkpoint of the matching architecture has been loaded.
C18_Witness ==
    /\ Loading /\ sitePc = "loaded"
    /\ FormatOf(ckpt) = "model_state_dict"
    /\ model = TrainedBlob(SiteArch)

\* C19: when export_to_onnx is left, by return or by an error, the output
\* path holds no file written by this export or a graph that passed the
\* check.
C19_NoUncheckedArtifact ==
    (site = "export" /\ sitePc \in {"done", "load_error", "check_error"}) =>
        (IsExportGraph(outFile) => outFile.sound)

\* C20: the exported graph has the one input and the eight outputs valid,
\* opcode, mode, rd, rs1, rs2, has_imm, imm_bin in this order, output i is
\* the model's head of that name, and the inference script binds each of
\* its eight names to the head it is named after.
C20_OutputOrder ==
    LET heads == ModelForward(ArchOf("export", light))
        names == <<"valid", "opcode", "mode", "rd", "rs1", "rs2", "has_imm",
                   "imm_bin">>
    IN  /\ IsExportGraph(outFile) =>
              /\ outFile.inputs = <<"input_ids">>
              /\ Len(outFile.outputs) = 8
              /\ \A i \in 1..8 :
                    /\ outFile.outputs[i].name = names[i]
                    /\ outFile.outputs[i].tensor = heads[names[i]]
        /\ bound # None =>
              /\ bound.valid_logits = heads["valid"]
              /\ bound.opcode_logits = heads["opcode"]
              /\ bound.mode_logits = heads["mode"]
              /\ bound.rd_logits = heads["rd"]
              /\ bound.rs1_logits = heads["rs1"]
              /\ bound.rs2_logits = heads["rs2"]
              /\ bound.has_imm_logits = heads["has_imm"]
              /\ bound.imm_bin_logits = heads["imm_bin"]

\* The inference script has unpacked the results of a checked graph.
C20_Witness ==
    /\ site = "onnx_inference"
    /\ bound # None
    /\ IsExportGraph(outFile) /\ outFile.sound

(***************************************************************************)
(* Properties of the path from a generator to the inference decoder        *)
(***************************************************************************)

\* The slot carries an immediate and has been decoded.
ImmDecoded == decoded # None /\ emitted # None /\ emitted.has_imm # 0

\* C21: for every signed immediate v of the range, the training target
\* bin = v mod 256 lies in 0..255 (-1 becomes 255), and the inference-side
\* decoding bin - 128 of that bin is not v: the two mappings are not inverses.
C21_NotInverses ==
    ImmDecoded =>
        /\ encoded["imm_bin"] = emitted.imm % 256
        /\ encoded["imm_bin"] \in 0..255
        /\ (emitted.imm = -1 => encoded["imm_bin"] = 255)
        /\ decoded.operand.imm = encoded["imm_bin"] - 128
        /\ decoded.operand.imm # emitted.imm

\* The immediate -1 was encoded as 255 and decoded as 127.
C21_Witness ==
    /\ ImmDecoded
    /\ emitted.imm = -1
    /\ encoded["imm_bin"] = 255
    /\ decoded.operand.imm = 127

(***************************************************************************)
(* Properties of forward and predict                                       *)
(***************************************************************************)

\* The call's sequence length is between 1 and the configured maximum.
LengthInRange == input_ids # None /\ input_ids.shape[2] \in 1..MaxSeqLen
\* The full model in training mode on a single token: one value per channel.
SingleValueBatch ==
    /\ net.kind = "full"
    /\ training
    /\ input_ids.shape[1] * input_ids.shape[2] = 1
\* forward returned the eight tensors of shape (B, 64, C), and predict, when
\* it returned, maps each head to a (B, 64) tensor of indices in 0..C-1.
StatedShapes ==
    /\ logits # None =>
          /\ DOMAIN logits = Heads
          /\ \A k \in Heads :
                logits[k] = Tensor(<<input_ids.shape[1], NUM_SLOTS, NumClasses[k]>>)
    /\ predictions # None =>
          /\ DOMAIN predictions = Heads
          /\ \A k \in Heads :
                /\ predictions[k].shape = <<input_ids.shape[1], NUM_SLOTS>>
                /\ predictions[k].lo = 0
                /\ predictions[k].hi = NumClasses[k] - 1

C23_GetItemReadOnly ==
    /\ dataset = loaded
    /\ \A w \in Workers :
          workers[w].pc = "returned" =>
              workers[w].item = GetItemResult(loaded, workers[w].idx)

\* One worker has returned the item of an over-long sample while the other
\* is in the middle of an access to the same index.
C23_Witness ==
    /\ dataset # None
    /\ workers["w1"].pc = "returned"
    /\ workers["w2"].pc = "tokenized"
    /\ workers["w1"].idx = workers["w2"].idx
    /\ Len(dataset.samples[workers["w1"].idx].instructions) > NUM_SLOTS

(***************************************************************************)
(* Properties of a resumed training run                                    *)
(***************************************************************************)

\* C24: a run resumed from an enriched checkpoint that stores epoch e (e > 0
\* here, which tells the enriched checkpoint from the other arguments)
\* continues with epoch index e + 1, and no epoch index is trained both
\* before the save and after the resume.
C24_ResumeContinuesAfterStoredEpoch ==
    start_epoch > 0 =>
        /\ epoch # Unbound => epoch >= start_epoch + 1
        /\ \A i, j \in 1..Len(params) : i < j => params[i] # params[j]

\* C25: whatever the loaders yield, also no batch at all, the mappings
\* train_epoch and evaluate return hold every entry the epoch loop reads
\* ('total', 'opcode', 'valid'; 'total', 'valid_acc', 'opcode_acc'), and no
\* epoch aborts.
C25_MetricsComplete ==
    /\ train_losses # None => {"total", "opcode", "valid"} \subseteq DOMAIN train_losses
    /\ val_losses # None =>
          {"total", "valid_acc", "opcode_acc"} \subseteq DOMAIN val_losses
    /\ epoch # Unbound => pc # "error"

\* C26: best_model.pt is overwritten only by a model whose validation opcode
\* accuracy is strictly higher than the one stored in the file it replaces,
\* also when that file was written by the run the checkpoint comes from.
C26_BestAccuracyNeverDecreases ==
    [][(IsEnriched(bestFile) /\ bestFile' # bestFile) =>
          best_opcode_acc' > bestFile.opcode_acc]_vars

(***************************************************************************)
(* Properties of the checkpoint readers, continued                         *)
(***************************************************************************)

\* The state dict a site hands to load_state_dict for a loaded object.
SelectedAt(s, ck) == IF s = "export" THEN SelectForExport(ck) ELSE SelectStateDict(ck)

\* C27: whatever the payload (bare blob, mapping with 'model_state_dict',
\* mapping with 'model'), the site that has loaded it selected the same
\* parameter blob as each of the other two sites selects from it.
C27_SitesSelectSameBlob ==
    PastLoad =>
        \A s \in {"resume", "export", "inference"} :
            SelectedAt(site, ckpt) = SelectedAt(s, ckpt)

\* Both tokenizers have produced their ids for the text.
BothTokenized == train_tokens # None /\ infer_tokens # None

\* C28: for every text and every length L the two tokenizers produce the
\* same id sequence: exactly L ids, the first min(L, byte length) being the
\* UTF-8 bytes of the text in order, each in 0..255, and every remaining id
\* the padding id 256, so that no padding id precedes a byte.
C28_TokenizersAgree ==
    BothTokenized =>
        LET ids   == train_tokens.ids
            bytes == Utf8(prompt.chars)
            n     == Min(token_len, Len(bytes))
        IN  /\ infer_tokens.ids = <<ids>>
            /\ Len(ids) = token_len
            /\ \A i \in 1..n : ids[i] = bytes[i] /\ ids[i] \in 0..255
            /\ \A i \in (n + 1)..token_len : ids[i] = 256

\* The euro sign (three bytes) tokenized to length 4: three bytes and one
\* padding id, from both tokenizers.
C28_Witness ==
    /\ BothTokenized
    /\ prompt.chars = <<8364>>
    /\ token_len = 4
    /\ train_tokens.ids = <<226, 130, 172, 256>>
    /\ infer_tokens.ids = <<train_tokens.ids>>

\* How the decoder's table spells the generators' instructions.
DecoderSpelling ==
    [ALU |-> "ALU", ALUI |-> "ALUI", MULDIV |-> "MULDIV", LOAD |-> "LD",
     STORE |-> "ST", BRANCH |-> "BRANCH", CALL |-> "CALL", RET |-> "RET",
     JUMP |-> "JUMP", MOV |-> "MOV", HALT |-> "HALT", EXT_CALL |-> "EXT.CALL"]

\* C29: every opcode number the generators emit is named by the inference
\* decoder's OPCODE_NAMES as that same instruction.
C29_OpcodeNumberingAgrees ==
    decoded # None => decoded.opname.name = DecoderSpelling[emitted.op]

(***************************************************************************)
(* The max_samples cap of the loader (checked under SpecLoad)              *)
(***************************************************************************)

\* The number of lines the loader is to examine: all of them, or the first
\* max_samples.
LineLimit == IF max_samples = 0 THEN Len(lines) ELSE Min(max_samples, Len(lines))
WellFormedUpTo(n) == SelectSeq(SubSeq(lines, 1, n), WellFormed)

\* C30: with max_samples = m > 0 the loader examines the first m lines,
\* skipped ones included, and no more: it stops there, and not before, with
\* exactly the well-formed records among them, at most m samples; with
\* max_samples = 0 it examines every line.
C30_CapCountsLines ==
    /\ lineNo <= LineLimit
    /\ loadPc # "reading" =>
          /\ lineNo = LineLimit
          /\ Len(samples) = Len(WellFormedUpTo(LineLimit))
          /\ \A i \in 1..Len(samples) :
                /\ samples[i].text = PromptField(WellFormedUpTo(LineLimit)[i].item)
                /\ samples[i].instructions = WellFormedUpTo(LineLimit)[i].item.instructions
          /\ max_samples > 0 => Len(samples) <= max_samples

====
